---- MODULE Spec2Model ----
(***************************************************************************)
(* Model of createClient (lib/jsdom/living/xhr/xhr-utils.js): protocol     *)
(* dispatch, CORS classification, the preflight call, the redirect / 401   *)
(* loop of doRequestTo and the abort controller, as one state machine.     *)
(* SpecErrorSteps runs requestErrorSteps alone, SpecPair runs two          *)
(* createClient calls side by side, and SpecLoader runs                    *)
(* ResourceLoader.fetch (lib/jsdom/browser/resources/resource-loader.js).  *)
(*                                                                         *)
(* JavaScript strings that the code inspects character by character        *)
(* (toLowerCase, toUpperCase, trim, split, join, base64) are sequences of  *)
(* one-character TLA+ strings.  Strings the code only stores or compares   *)
(* as a whole (cookie values, the user agent) are one-element sequences.   *)
(* null and undefined are the sequences NULL and UNDEFINED.                *)
(***************************************************************************)
EXTENDS Integers, Sequences, FiniteSets, TLC

VARIABLES
    pc,               \* where the operation stands (which promise / tick is outstanding)
    flag,             \* xhr.flag
    xhr,              \* the xhr fields and xhr.properties that createClient touches
    xhrEvents,        \* events fired on the xhr / its upload / the virtual console
    requestHeaders,   \* the header object shared by every hop (options.headers)
    options,          \* the options object handed to fetch for the real request
    response,         \* the EventEmitter "response" object (statusCode, headers)
    aborted,          \* abortController.signal.aborted
    gatheredCookies,  \* Set-Cookie value lists gathered over the hops
    requestsDone,     \* redirect counter of doRequestTo
    uri,              \* argument of the running doRequestTo call
    resp,             \* the transport response a pending handler will receive
    err,              \* the rejection reason a pending catch handler will receive
    buffer,           \* the body bytes a pending handler / tick will emit
    events,           \* events emitted on the client, in order
    setCookieCalls,   \* calls of flag.cookieJar.setCookie, in order: <<value, uri>>
    preflightCalls,   \* number of preflight fetch calls put on the wire
    realRequests,     \* number of real-request fetch calls put on the wire
    lastRequest,      \* the last call handed to the transport
    authRetries,      \* number of 401 retries made
    abortAt,          \* pc at the first client.abort() call ("never" before it)
    fetchCalls,       \* number of calls of fetch(), whatever became of them
    stream,           \* file: branch: the read stream and the pending response tick
    loader,           \* the promise and closure of one ResourceLoader.fetch call
    clients,          \* two createClient operations running side by side
    observed,         \* what the listeners of requestErrorSteps' events saw
    requestManager,   \* flag.requestManager: the entries it holds
    legacy            \* one call of the standalone request() helper

vars == << pc, flag, xhr, xhrEvents, requestHeaders, options, response, aborted,
           gatheredCookies, requestsDone, uri, resp, err, buffer, events,
           setCookieCalls, preflightCalls, realRequests, lastRequest,
           authRetries, abortAt, fetchCalls, stream, loader, clients, observed,
           requestManager, legacy >>

----------------------------------------------------------------------------
(* JavaScript values *)

NULL == << "<null>" >>
UNDEFINED == << "<undefined>" >>

\* the letters of toUpperCase / toLowerCase, the characters with codes
\* 32 .. 95 (the lower-case letters have codes 97 .. 122) and the base64 alphabet
Alphabet ==
    [ Upper |-> << "A","B","C","D","E","F","G","H","I","J","K","L","M", "N","O","P","Q","R","S","T","U","V","W","X","Y","Z" >>,
      Lower |-> << "a","b","c","d","e","f","g","h","i","j","k","l","m", "n","o","p","q","r","s","t","u","v","w","x","y","z" >>,
      Ascii |-> << " ","!","\"","#","$","%","&","'","(",")","*","+",",","-",".","/","0","1","2","3","4","5","6","7","8","9",":",";","<","=",">","?","@","A","B","C","D","E","F","G","H","I","J","K","L","M","N","O","P","Q","R","S","T","U","V","W","X","Y","Z","[","\\","]","^","_" >>,
      Base64 |-> << "A","B","C","D","E","F","G","H","I","J","K","L","M","N","O","P","Q","R","S","T","U","V","W","X","Y","Z","a","b","c","d","e","f","g","h","i","j","k","l","m","n","o","p","q","r","s","t","u","v","w","x","y","z","0","1","2","3","4","5","6","7","8","9","+","/" >> ]

toLowerCaseChar(c) ==
    IF \E i \in DOMAIN Alphabet.Upper : Alphabet.Upper[i] = c
    THEN Alphabet.Lower[CHOOSE i \in DOMAIN Alphabet.Upper : Alphabet.Upper[i] = c]
    ELSE c

toUpperCaseChar(c) ==
    IF \E i \in DOMAIN Alphabet.Lower : Alphabet.Lower[i] = c
    THEN Alphabet.Upper[CHOOSE i \in DOMAIN Alphabet.Lower : Alphabet.Lower[i] = c]
    ELSE c

\* String.prototype.toLowerCase / toUpperCase
toLowerCase(s) == [i \in DOMAIN s |-> toLowerCaseChar(s[i])]
toUpperCase(s) == [i \in DOMAIN s |-> toUpperCaseChar(s[i])]

IsSpace(c) == c \in {" ", "\t"}

RECURSIVE trimStart(_)
trimStart(s) ==
    IF s # << >> /\ IsSpace(Head(s)) THEN trimStart(Tail(s)) ELSE s

RECURSIVE trimEnd(_)
trimEnd(s) ==
    IF s # << >> /\ IsSpace(s[Len(s)]) THEN trimEnd(SubSeq(s, 1, Len(s) - 1)) ELSE s

\* String.prototype.trim
trim(s) == trimEnd(trimStart(s))

\* Array.prototype.join
RECURSIVE join(_, _)
join(arr, sep) ==
    IF arr = << >> THEN << >>
    ELSE IF Len(arr) = 1 THEN arr[1]
    ELSE arr[1] \o sep \o join(Tail(arr), sep)

\* String.prototype.split(headerListSeparatorRegexp): a comma and the spaces
\* and tabs that follow it separate two fields
RECURSIVE splitFrom(_, _)
splitFrom(s, cur) ==
    IF s = << >> THEN << cur >>
    ELSE IF Head(s) = "," THEN << cur >> \o splitFrom(trimStart(Tail(s)), << >>)
    ELSE splitFrom(Tail(s), Append(cur, Head(s)))

headerListSeparatorSplit(s) == splitFrom(s, << >>)

\* the elements of an array, as a set
Elems(arr) == { arr[i] : i \in DOMAIN arr }

\* the arrays of arrays flattened (gatheredCookies.forEach(values => values.forEach))
RECURSIVE Flatten(_)
Flatten(arrs) ==
    IF arrs = << >> THEN << >> ELSE Head(arrs) \o Flatten(Tail(arrs))

----------------------------------------------------------------------------
(* A JavaScript object with string keys: its own properties in insertion   *)
(* order, each [k |-> key, v |-> value].                                   *)

EmptyObject == << >>

ObjectKeys(o) == [i \in DOMAIN o |-> o[i].k]

HasOwn(o, key) == \E i \in DOMAIN o : o[i].k = key

\* o[key]
Get(o, key) ==
    IF HasOwn(o, key) THEN o[CHOOSE i \in DOMAIN o : o[i].k = key].v ELSE UNDEFINED

\* o[key] = value
Put(o, key, value) ==
    IF HasOwn(o, key)
    THEN [i \in DOMAIN o |-> IF o[i].k = key THEN [k |-> key, v |-> value] ELSE o[i]]
    ELSE Append(o, [k |-> key, v |-> value])

----------------------------------------------------------------------------
(* Strings of the source *)

\* header names as the code compares them, in lower case
lcName ==
    [ accept |-> << "a","c","c","e","p","t" >>,
      accept_language |-> << "a","c","c","e","p","t","-","l","a","n","g","u","a","g","e" >>,
      content_language |-> << "c","o","n","t","e","n","t","-","l","a","n","g","u","a","g","e" >>,
      content_type |-> << "c","o","n","t","e","n","t","-","t","y","p","e" >>,
      referer |-> << "r","e","f","e","r","e","r" >>,
      user_agent |-> << "u","s","e","r","-","a","g","e","n","t" >>,
      accept_encoding |-> << "a","c","c","e","p","t","-","e","n","c","o","d","i","n","g" >>,
      origin |-> << "o","r","i","g","i","n" >>,
      referrer |-> << "r","e","f","e","r","r","e","r" >> ]

\* header names as the code writes them
HeaderName ==
    [ Referer |-> << "R","e","f","e","r","e","r" >>,
      User_Agent |-> << "U","s","e","r","-","A","g","e","n","t" >>,
      Accept_Language |-> << "A","c","c","e","p","t","-","L","a","n","g","u","a","g","e" >>,
      Accept_Encoding |-> << "A","c","c","e","p","t","-","E","n","c","o","d","i","n","g" >>,
      Accept |-> << "A","c","c","e","p","t" >>,
      Origin |-> << "O","r","i","g","i","n" >>,
      Cookie |-> << "C","o","o","k","i","e" >>,
      Content_Type |-> << "C","o","n","t","e","n","t","-","T","y","p","e" >>,
      Authorization |-> << "A","u","t","h","o","r","i","z","a","t","i","o","n" >>,
      Access_Control_Request_Method |-> << "A","c","c","e","s","s","-","C","o","n","t","r","o","l","-","R","e","q","u","e","s","t","-","M","e","t","h","o","d" >>,
      Access_Control_Request_Headers |-> << "A","c","c","e","s","s","-","C","o","n","t","r","o","l","-","R","e","q","u","e","s","t","-","H","e","a","d","e","r","s" >>,
      X_Custom |-> << "X","-","C","u","s","t","o","m" >>,
      x_other |-> << "x","-","o","t","h","e","r" >>,
      CONTENT_LANGUAGE |-> << "C","O","N","T","E","N","T","-","L","A","N","G","U","A","G","E" >> ]

\* request methods
Method ==
    [ GET |-> << "G","E","T" >>,
      HEAD |-> << "H","E","A","D" >>,
      POST |-> << "P","O","S","T" >>,
      OPTIONS |-> << "O","P","T","I","O","N","S" >> ]

\* header values the code compares with
HeaderValue ==
    [ Star |-> << "*" >>,
      True |-> << "t","r","u","e" >> ]

simpleMethods == { Method.GET, Method.HEAD, Method.POST }
simpleHeaders == { lcName.accept, lcName.accept_language, lcName.content_language, lcName.content_type }

READY_STATES == [UNSENT |-> 0, OPENED |-> 1, HEADERS_RECEIVED |-> 2, LOADING |-> 3, DONE |-> 4]

\* getRequestHeader: the value of the last own key that matches case-insensitively
getRequestHeader(headers, header) ==
    LET lcHeader == toLowerCase(header)
        hits == { n \in DOMAIN headers : toLowerCase(headers[n].k) = lcHeader }
    IN  IF hits = {} THEN NULL
        ELSE headers[CHOOSE n \in hits : \A m \in hits : m <= n].v

----------------------------------------------------------------------------
(* Buffer.from(string).toString("base64") *)

\* the UTF-8 byte of an ASCII character
CharCode(c) ==
    IF \E n \in DOMAIN Alphabet.Lower : Alphabet.Lower[n] = c
    THEN 96 + (CHOOSE n \in DOMAIN Alphabet.Lower : Alphabet.Lower[n] = c)
    ELSE 31 + (CHOOSE n \in DOMAIN Alphabet.Ascii : Alphabet.Ascii[n] = c)

BufferFrom(s) == [i \in DOMAIN s |-> CharCode(s[i])]

Sextet(n) == Alphabet.Base64[n + 1]

RECURSIVE toStringBase64(_)
toStringBase64(bytes) ==
    IF bytes = << >> THEN << >>
    ELSE IF Len(bytes) = 1 THEN
        << Sextet(bytes[1] \div 4), Sextet((bytes[1] % 4) * 16), "=", "=" >>
    ELSE IF Len(bytes) = 2 THEN
        << Sextet(bytes[1] \div 4),
           Sextet((bytes[1] % 4) * 16 + bytes[2] \div 16),
           Sextet((bytes[2] % 16) * 4), "=" >>
    ELSE
        << Sextet(bytes[1] \div 4),
           Sextet((bytes[1] % 4) * 16 + bytes[2] \div 16),
           Sextet((bytes[2] % 16) * 4 + bytes[3] \div 64),
           Sextet(bytes[3] % 64) >> \o toStringBase64(SubSeq(bytes, 4, Len(bytes)))

\* "Basic " + Buffer.from(`${flag.auth.user}:${flag.auth.pass}`).toString("base64")
authHeader(auth) ==
    << "B","a","s","i","c"," " >> \o toStringBase64(BufferFrom(auth.user \o << ":" >> \o auth.pass))

----------------------------------------------------------------------------
(* Inputs: URLs, flags, transport responses *)

\* flag.origin and urlObj.origin values
Origins ==
    [ A |-> << "h","t","t","p",":","/","/","a",".","t","e","s","t" >>,
      B |-> << "h","t","t","p",":","/","/","b",".","t","e","s","t" >> ]

\* flag.uri and Location values
Uri ==
    [ A |-> << "http://a.test/r" >>,
      A2 |-> << "http://a.test/s" >>,
      B |-> << "https://b.test/r" >>,
      DataHello |-> << "data:text/plain,hello" >>,
      DataDefault |-> << "data:,hi" >>,
      DataBad |-> << "data:text/plain" >>,
      FileAB |-> << "file:///ab" >>,
      FileSpace |-> << "file:///a%20b" >>,
      FileDrive |-> << "file:///c:/e" >>,
      FileMissing |-> << "file:///missing" >>,
      FtpB |-> << "ftp://b.test/r" >>,
      Invalid |-> << "::" >> ]

\* new URL(u): the fields createClient reads
URL(u) ==
    CASE u = Uri.A -> [href |-> Uri.A, protocol |-> "http:", origin |-> Origins.A]
      [] u = Uri.A2 -> [href |-> Uri.A2, protocol |-> "http:", origin |-> Origins.A]
      [] u = Uri.B -> [href |-> Uri.B, protocol |-> "https:", origin |-> << "h","t","t","p","s",":","/","/","b",".","t","e","s","t" >>]
      [] u \in {Uri.DataHello, Uri.DataDefault, Uri.DataBad} ->
            [href |-> u, protocol |-> "data:", origin |-> << "n","u","l","l" >>]
      [] u = Uri.FileAB -> [href |-> u, protocol |-> "file:", origin |-> << "n","u","l","l" >>,
                        pathname |-> << "/","a","b" >>]
      [] u = Uri.FileSpace -> [href |-> u, protocol |-> "file:", origin |-> << "n","u","l","l" >>,
                           pathname |-> << "/","a","%","2","0","b" >>]
      [] u = Uri.FileDrive -> [href |-> u, protocol |-> "file:", origin |-> << "n","u","l","l" >>,
                           pathname |-> << "/","c",":","/","e" >>]
      [] u = Uri.FileMissing -> [href |-> u, protocol |-> "file:", origin |-> << "n","u","l","l" >>,
                             pathname |-> << "/","m","i","s","s","i","n","g" >>]
      [] u = Uri.FtpB -> [href |-> u, protocol |-> "ftp:",
                      origin |-> << "f","t","p",":","/","/","b",".","t","e","s","t" >>]

\* the schemes node-fetch accepts; for any other it rejects with a TypeError
\* before any I/O
SupportedByFetch(u) == URL(u).protocol \in {"http:", "https:"}

\* .replace(/^file:\/\//, "")
replaceFileScheme(s) ==
    IF Len(s) >= 7 /\ SubSeq(s, 1, 7) = << "f","i","l","e",":","/","/" >>
    THEN SubSeq(s, 8, Len(s)) ELSE s

\* .replace(/^\/([a-z]):\//i, "$1:/")
replaceDriveLetter(s) ==
    IF /\ Len(s) >= 4
       /\ s[1] = "/"
       /\ \E i \in 1..26 : s[2] = Alphabet.Lower[i] \/ s[2] = Alphabet.Upper[i]
       /\ s[3] = ":"
       /\ s[4] = "/"
    THEN Tail(s) ELSE s

\* .replace(/%20/g, " ")
RECURSIVE replacePercent20(_)
replacePercent20(s) ==
    IF Len(s) = 0 THEN << >>
    ELSE IF Len(s) >= 3 /\ SubSeq(s, 1, 3) = << "%","2","0" >>
    THEN << " " >> \o replacePercent20(SubSeq(s, 4, Len(s)))
    ELSE << s[1] >> \o replacePercent20(Tail(s))

\* lines 164-167
filePath(pathname) == replacePercent20(replaceDriveLetter(replaceFileScheme(pathname)))

\* the files on disk: their bytes, NULL for a path that cannot be opened
FileSystem(path) ==
    CASE path = << "/","a","b" >> -> << "1","2" >>
      [] path = << "/","a"," ","b" >> -> << "1","2","3" >>
      [] path = << "c",":","/","e" >> -> << >>
      [] OTHER -> NULL

\* parseDataURL(u): null for a URL that is no data URL, else its media type and body
parseDataURL(u) ==
    CASE u = Uri.DataHello -> [ok |-> TRUE, mimeType |-> << "text/plain" >>,
                           body |-> << "h","e","l","l","o" >>]
      [] u = Uri.DataDefault -> [ok |-> TRUE, mimeType |-> << "text/plain;charset=US-ASCII" >>,
                             body |-> << "h","i" >>]
      [] OTHER -> [ok |-> FALSE, mimeType |-> NULL, body |-> NULL]

\* caller-supplied header objects (flag.requestHeaders)
HeaderObjects ==
    { EmptyObject,
      << [k |-> HeaderName.Accept, v |-> << "text/html" >>] >>,
      << [k |-> HeaderName.CONTENT_LANGUAGE, v |-> << "de" >>] >>,
      << [k |-> HeaderName.X_Custom, v |-> << "1" >>] >>,
      << [k |-> lcName.content_type, v |-> << "application/json" >>],
         [k |-> HeaderName.x_other, v |-> << "2" >>] >>,
      << [k |-> lcName.referer, v |-> << "http://ref.test/" >>],
         [k |-> HeaderName.X_Custom, v |-> << "1" >>] >> }

Methods == { Method.GET, << "g","e","t" >>, << "P","o","s","t" >>, Method.HEAD,
             << "P","U","T" >>, << "d","e","l","e","t","e" >> }

NoAuth == [present |-> FALSE, user |-> << >>, pass |-> << >>]
Auths == { NoAuth,
           [present |-> TRUE, user |-> << "u" >>, pass |-> << "p" >>],
           [present |-> TRUE, user |-> << "j","o","e" >>, pass |-> << "p","w","1","2" >>] }

\* flag.cookieJar: absent, or a jar whose getCookies returns these cookie strings
NoJar == [present |-> FALSE, cookies |-> << >>]
Jars == { NoJar,
          [present |-> TRUE, cookies |-> << >>],
          [present |-> TRUE, cookies |-> << << "sid=1" >>, << "t=2" >> >>] }

Bodies == { UNDEFINED, << >>, << "payload" >> }

FlagOf(u, m, h, o, w, a, j, b, s) ==
    [uri |-> u, method |-> m, requestHeaders |-> h, origin |-> o,
     withCredentials |-> w, auth |-> a, cookieJar |-> j, body |-> b,
     formData |-> FALSE, synchronous |-> s, preflight |-> FALSE,
     referrer |-> << "http://ref.test/page" >>, userAgent |-> << "jsdom" >>,
     strictSSL |-> TRUE, proxy |-> UNDEFINED, requestManager |-> TRUE]

\* every combination of the inputs the CORS classification reads
AllFlags ==
    { FlagOf(u, m, h, o, w, NoAuth, NoJar, b, FALSE) :
        u \in {Uri.A, Uri.B}, m \in Methods, h \in HeaderObjects,
        o \in {Origins.A, Origins.B}, w \in BOOLEAN, b \in {UNDEFINED, << "payload" >>} }

\* the operations whose whole run is explored
Flags ==
    LET creds == [present |-> TRUE, user |-> << "u" >>, pass |-> << "p" >>]
        joe == [present |-> TRUE, user |-> << "j","o","e" >>, pass |-> << "p","w","1","2" >>]
        jar == [present |-> TRUE, cookies |-> << << "sid=1" >>, << "t=2" >> >>]
        xc == << [k |-> HeaderName.X_Custom, v |-> << "1" >>] >>
    IN  { FlagOf(Uri.A, Method.GET, EmptyObject, Origins.A, FALSE, NoAuth, NoJar, UNDEFINED, FALSE),
          FlagOf(Uri.A, << "P","U","T" >>, xc, Origins.A, FALSE, creds, jar, << "payload" >>, FALSE),
          FlagOf(Uri.A, Method.GET, EmptyObject, Origins.B, TRUE, joe, jar, UNDEFINED, FALSE),
          FlagOf(Uri.A, << "P","o","s","t" >>, EmptyObject, Origins.B, FALSE, NoAuth, NoJar,
                 << "payload" >>, FALSE),
          FlagOf(Uri.A, << "P","U","T" >>, EmptyObject, Origins.B, FALSE, creds, NoJar,
                 << "payload" >>, FALSE),
          FlagOf(Uri.A, Method.GET, xc, Origins.B, TRUE, NoAuth, jar, UNDEFINED, TRUE),
          FlagOf(Uri.DataHello, Method.GET, EmptyObject, Origins.A, FALSE, NoAuth, NoJar, UNDEFINED, FALSE),
          FlagOf(Uri.DataDefault, Method.GET, EmptyObject, Origins.A, FALSE, NoAuth, NoJar, UNDEFINED, FALSE),
          FlagOf(Uri.DataBad, Method.GET, EmptyObject, Origins.A, FALSE, NoAuth, NoJar, UNDEFINED, FALSE),
          FlagOf(Uri.FileAB, Method.GET, EmptyObject, Origins.A, FALSE, NoAuth, NoJar, UNDEFINED, FALSE),
          FlagOf(Uri.FileSpace, Method.GET, EmptyObject, Origins.A, FALSE, NoAuth, NoJar, UNDEFINED, FALSE),
          FlagOf(Uri.FileDrive, Method.GET, EmptyObject, Origins.A, FALSE, NoAuth, NoJar, UNDEFINED, FALSE),
          FlagOf(Uri.FileMissing, Method.GET, EmptyObject, Origins.A, FALSE, NoAuth, NoJar, UNDEFINED, FALSE),
          FlagOf(Uri.FtpB, Method.GET, EmptyObject, Origins.A, FALSE, NoAuth, NoJar, UNDEFINED, FALSE),
          FlagOf(Uri.FtpB, << "P","U","T" >>, EmptyObject, Origins.A, FALSE, NoAuth, NoJar,
                 << "payload" >>, FALSE),
          [FlagOf(Uri.A, << "P","U","T" >>, EmptyObject, Origins.B, FALSE, creds, NoJar,
                  << "payload" >>, FALSE)
              EXCEPT !.requestManager = FALSE],
          [FlagOf(Uri.FileAB, Method.GET, EmptyObject, Origins.A, FALSE, NoAuth, NoJar, UNDEFINED, FALSE)
              EXCEPT !.requestManager = FALSE] }

----------------------------------------------------------------------------
(* node-fetch Headers: the header lists are kept in a private map, keyed by *)
(* lower-cased name, each with its array of values.                        *)

\* headers.has(name)
has(headers, name) == HasOwn(headers, name)

\* headers.raw()[name]
raw(headers, name) == Get(headers, name)

\* headers.get(name): the values joined, null when the header is absent
get(headers, name) ==
    IF HasOwn(headers, name) THEN join(Get(headers, name), << ", " >>) ELSE NULL

\* headers[name]: a Headers object has no own property per header name
HeadersProperty(headers, name) == UNDEFINED

\* a JavaScript value used as a condition
Truthy(v) == v \notin { UNDEFINED, NULL, << >> }

SetCookieLists == { << << "a=1" >> >>, << << "b=2" >>, << "c=3" >> >> }

HeadersOf(cookies, location, challenge) ==
    LET h0 == EmptyObject
        h1 == IF location # NULL THEN Put(h0, << "location" >>, << location >>) ELSE h0
        h2 == IF cookies # << >> THEN Put(h1, << "set-cookie" >>, cookies) ELSE h1
    IN  IF challenge THEN Put(h2, << "www-authenticate" >>, << << "Basic realm=x" >> >>) ELSE h2

\* what the server may answer to a real request
Responses ==
    { [status |-> 200, headers |-> HeadersOf(c, NULL, FALSE)] : c \in SetCookieLists \cup {<< >>} }
    \cup { [status |-> s, headers |-> HeadersOf(c, l, FALSE)] :
             s \in {302, 307}, c \in SetCookieLists \cup {<< >>}, l \in {Uri.A2, Uri.B} }
    \cup { [status |-> 301, headers |-> HeadersOf(<< >>, NULL, FALSE)] }
    \cup { [status |-> 303, headers |-> HeadersOf(<< >>, Uri.B, FALSE)] }
    \cup { [status |-> 401, headers |-> HeadersOf(c, NULL, w)] :
             c \in {<< >>, << << "a=1" >> >>}, w \in BOOLEAN }
    \cup { [status |-> 404, headers |-> HeadersOf(<< >>, NULL, FALSE)] }

PreflightHeadersOf(acao, acac, acah) ==
    LET h0 == EmptyObject
        h1 == IF acac # NULL THEN Put(h0, << "access-control-allow-credentials" >>, << acac >>) ELSE h0
        h2 == IF acah # NULL THEN Put(h1, << "access-control-allow-headers" >>, << acah >>) ELSE h1
    IN  IF acao # NULL THEN Put(h2, << "access-control-allow-origin" >>, << acao >>) ELSE h2

\* what the server may answer to the preflight
PreflightResponses ==
    { [status |-> s, headers |-> PreflightHeadersOf(o, c, h)] :
        s \in {199, 200, 204, 299, 300, 404},
        o \in {NULL, HeaderValue.Star, Origins.B, << " " >> \o Origins.B \o << " " >>, Origins.A},
        c \in {NULL, HeaderValue.True},
        h \in {NULL, << "x","-","c","u","s","t","o","m" >>,
               << "X","-","O","t","h","e","r",","," ","X","-","C","u","s","t","o","m" >>} }

ResponseBodies == { << >>, << "b","o","d","y" >> }

NoResponse == [status |-> 0, headers |-> EmptyObject]

----------------------------------------------------------------------------
(* Bounds and constants *)

\* most responses carrying Set-Cookie that the server sends in one operation
MaxGathered == 2

\* the redirect counter value at which doRequestTo gives up
MaxRequestsDone == 21

\* most bytes the read stream hands over in one data event (Node reads up to
\* highWaterMark bytes at a time), scaled to the files of the model
HighWaterMark == 2

\* most abort() calls made on one file: client
MaxAborts == 2

\* most responses carrying Set-Cookie that one of two concurrent operations gets
MaxPairGathered == 1

\* the redirect counter value at which ResourceLoader._request gives up
MaxLoaderRequestsDone == 21

----------------------------------------------------------------------------
(* requestErrorSteps, setResponseToNetworkError, dispatchError *)

setResponseToNetworkError(x) ==
    [x EXCEPT !.properties.responseCache = NULL,
              !.properties.responseTextCache = NULL,
              !.properties.responseXMLCache = NULL,
              !.properties.responseHeaders = EmptyObject,
              !.status = 0,
              !.statusText = << >>]

\* the xhr after requestErrorSteps (whether it throws or returns)
requestErrorSteps(x, f) ==
    LET reset == setResponseToNetworkError(
                     [x EXCEPT !.readyState = READY_STATES.DONE, !.properties.send = FALSE])
    IN  IF f.synchronous THEN reset
        ELSE [reset EXCEPT !.properties.uploadComplete = TRUE]

\* the events requestErrorSteps fires, in order (none when it throws)
requestErrorStepsEvents(x, f, event) ==
    IF f.synchronous THEN << >>
    ELSE << << "xhr", "readystatechange" >> >>
         \o (IF ~x.properties.uploadComplete /\ x.properties.uploadListener
             THEN << << "upload", event >>, << "upload", "loadend" >> >> ELSE << >>)
         \o << << "xhr", event >>, << "xhr", "loadend" >> >>

\* the listeners' view with the response reset only after readystatechange
requestErrorStepsObserved_resetLate(x, f, event) ==
    LET x1 == [x EXCEPT !.readyState = READY_STATES.DONE, !.properties.send = FALSE]
        x2 == setResponseToNetworkError(x1)
        x3 == [x2 EXCEPT !.properties.uploadComplete = TRUE]
        fired(target, type, seen) ==
            [target |-> target, type |-> type, seen |-> seen, prior |-> x]
    IN  IF f.synchronous THEN << fired("caller", "throw", x1) >>
        ELSE << fired("xhr", "readystatechange", x1) >>
             \o (IF ~x2.properties.uploadComplete /\ x2.properties.uploadListener
                 THEN << fired("upload", event, x3), fired("upload", "loadend", x3) >>
                 ELSE << >>)
             \o << fired("xhr", event, x3), fired("xhr", "loadend", x3) >>

\* lines 111-136, seen from outside: each event requestErrorSteps fires (or the
\* exception it throws) with the xhr as its listener (or the catching caller)
\* finds it, and the xhr as it was when requestErrorSteps was called
requestErrorStepsObserved(x, f, event) ==
    LET x1 == [x EXCEPT !.readyState = READY_STATES.DONE, !.properties.send = FALSE]
        x2 == setResponseToNetworkError(x1)
        x3 == [x2 EXCEPT !.properties.uploadComplete = TRUE]
        fired(target, type, seen) ==
            [target |-> target, type |-> type, seen |-> seen, prior |-> x]
    IN  IF f.synchronous THEN << fired("caller", "throw", x2) >>
        ELSE << fired("xhr", "readystatechange", x2) >>
             \o (IF ~x2.properties.uploadComplete /\ x2.properties.uploadListener
                 THEN << fired("upload", event, x3), fired("upload", "loadend", x3) >>
                 ELSE << >>)
             \o << fired("xhr", event, x3), fired("xhr", "loadend", x3) >>

\* dispatchError: requestErrorSteps with "error", then the console's jsdomError
dispatchErrorEvents(x, f) ==
    IF f.synchronous THEN << >>
    ELSE requestErrorStepsEvents(x, f, "error")
         \o (IF x.ownerDocument THEN << << "virtualConsole", "jsdomError" >> >> ELSE << >>)

----------------------------------------------------------------------------
(* validCORSHeaders, validCORSPreflightHeaders: the error message they set *)
(* (properties.error), or NULL when they return true                       *)

validCORSHeadersError(response_, f, origin) ==
    LET acaoStr == HeadersProperty(response_.headers, << "access-control-allow-origin" >>)
        acao == IF Truthy(acaoStr) THEN trim(acaoStr) ELSE NULL
        acacStr == HeadersProperty(response_.headers, << "access-control-allow-credentials" >>)
        acac == IF Truthy(acacStr) THEN trim(acacStr) ELSE NULL
    IN  IF acao # HeaderValue.Star /\ acao # origin
        THEN << "Cross origin " >> \o origin \o << " forbidden" >>
        ELSE IF f.withCredentials /\ acac # HeaderValue.True
        THEN << "Credentials forbidden" >>
        ELSE NULL

forbiddenHeaders(response_, f) ==
    LET acahStr == HeadersProperty(response_.headers, << "access-control-allow-headers" >>)
        acah == IF Truthy(acahStr)
                THEN Elems(headerListSeparatorSplit(toLowerCase(trim(acahStr))))
                ELSE {}
        forbidden(header) == toLowerCase(header) \notin simpleHeaders
                             /\ toLowerCase(header) \notin acah
    IN  SelectSeq(ObjectKeys(f.requestHeaders), forbidden)

\* a validation that lets every preflight response pass
validCORSPreflightHeadersError_alwaysValid(response_, f, props) == NULL

validCORSPreflightHeadersError(response_, f, props) ==
    IF validCORSHeadersError(response_, f, props.origin) # NULL
    THEN validCORSHeadersError(response_, f, props.origin)
    ELSE IF Len(forbiddenHeaders(response_, f)) > 0
    THEN << "Headers " >> \o join(forbiddenHeaders(response_, f), << "," >>) \o << " forbidden" >>
    ELSE NULL

----------------------------------------------------------------------------
(* createClient: the synchronous part *)

crossOrigin(f) == f.origin # URL(f.uri).origin

ucMethod(f) == toUpperCase(f.method)

\* the defaults with Origin set whatever the origin
defaultHeaders_alwaysOrigin(f) ==
    LET h0 == f.requestHeaders
        h1 == IF getRequestHeader(f.requestHeaders, lcName.referer) = NULL
              THEN Put(h0, HeaderName.Referer, f.referrer) ELSE h0
        h2 == IF getRequestHeader(f.requestHeaders, lcName.user_agent) = NULL
              THEN Put(h1, HeaderName.User_Agent, f.userAgent) ELSE h1
        h3 == IF getRequestHeader(f.requestHeaders, lcName.accept_language) = NULL
              THEN Put(h2, HeaderName.Accept_Language, << "en" >>) ELSE h2
        h4 == IF getRequestHeader(f.requestHeaders, lcName.accept_encoding) = NULL
              THEN Put(h3, HeaderName.Accept_Encoding, << "gzip,deflate" >>) ELSE h3
        h5 == IF getRequestHeader(f.requestHeaders, lcName.accept) = NULL
              THEN Put(h4, HeaderName.Accept, << "*/*" >>) ELSE h4
    IN  Put(h5, HeaderName.Origin, f.origin)

\* lines 238-263: the caller's headers, the defaults, Origin
defaultHeaders(f) ==
    LET h0 == f.requestHeaders
        h1 == IF getRequestHeader(f.requestHeaders, lcName.referer) = NULL
              THEN Put(h0, HeaderName.Referer, f.referrer) ELSE h0
        h2 == IF getRequestHeader(f.requestHeaders, lcName.user_agent) = NULL
              THEN Put(h1, HeaderName.User_Agent, f.userAgent) ELSE h1
        h3 == IF getRequestHeader(f.requestHeaders, lcName.accept_language) = NULL
              THEN Put(h2, HeaderName.Accept_Language, << "en" >>) ELSE h2
        h4 == IF getRequestHeader(f.requestHeaders, lcName.accept_encoding) = NULL
              THEN Put(h3, HeaderName.Accept_Encoding, << "gzip,deflate" >>) ELSE h3
        h5 == IF getRequestHeader(f.requestHeaders, lcName.accept) = NULL
              THEN Put(h4, HeaderName.Accept, << "*/*" >>) ELSE h4
    IN  IF crossOrigin(f) THEN Put(h5, HeaderName.Origin, f.origin) ELSE h5

\* lines 281-287: the Cookie header from the jar
cookieHeader(f, h) ==
    IF f.cookieJar.present /\ (~crossOrigin(f) \/ f.withCredentials)
       /\ Len(f.cookieJar.cookies) > 0
    THEN Put(h, HeaderName.Cookie, join(f.cookieJar.cookies, << "; " >>))
    ELSE h

hasBody(f) ==
    /\ f.body # UNDEFINED
    /\ f.body # NULL
    /\ f.body # << >>
    /\ ~(ucMethod(f) = Method.HEAD \/ ucMethod(f) = Method.GET)

\* lines 305-307: the default Content-Type of a body
contentTypeHeader(f, h) ==
    IF hasBody(f) /\ getRequestHeader(f.requestHeaders, lcName.content_type) = NULL
    THEN Put(h, HeaderName.Content_Type, << "text/plain;charset=UTF-8" >>)
    ELSE h

\* requestHeaders when createClient starts the first call
initialRequestHeaders(f) == contentTypeHeader(f, cookieHeader(f, defaultHeaders(f)))

agentOf(f) ==
    [https |-> URL(f.uri).protocol = "https:", keepAlive |-> TRUE,
     rejectUnauthorized |-> f.strictSSL]

\* lines 274-303: the options of the real request (options.headers is requestHeaders)
optionsOf(f) ==
    [method |-> f.method, redirect |-> "manual", agent |-> agentOf(f),
     body |-> IF hasBody(f) /\ ~f.formData THEN f.body ELSE UNDEFINED]

nonSimpleHeaders(f) ==
    LET nonSimple(header) == toLowerCase(header) \notin simpleHeaders
    IN  SelectSeq(ObjectKeys(f.requestHeaders), nonSimple)

\* the condition with the header names compared case-sensitively
needsPreflight_caseSensitive(f, uploadListener) ==
    crossOrigin(f) /\ (\/ ucMethod(f) \notin simpleMethods
                       \/ \E i \in DOMAIN f.requestHeaders :
                              f.requestHeaders[i].k \notin simpleHeaders
                       \/ uploadListener)

\* line 393: whether the preflight call is made
needsPreflight(f, uploadListener) ==
    crossOrigin(f) /\ (\/ ucMethod(f) \notin simpleMethods
                       \/ Len(nonSimpleHeaders(f)) > 0
                       \/ uploadListener)

\* lines 394-408: the headers of the preflight call
preflightRequestHeaders(f, h) ==
    LET copied(e) == toLowerCase(e.k) = lcName.origin \/ toLowerCase(e.k) = lcName.referrer
        p0 == SelectSeq(h, copied)
        p1 == Put(p0, HeaderName.Access_Control_Request_Method, f.method)
        p2 == IF Len(nonSimpleHeaders(f)) > 0
              THEN Put(p1, HeaderName.Access_Control_Request_Headers,
                       join(nonSimpleHeaders(f), << ",", " " >>))
              ELSE p1
    IN  Put(p2, HeaderName.User_Agent, f.userAgent)

preflightOptions(f, h) ==
    [method |-> Method.OPTIONS, redirect |-> "manual", agent |-> agentOf(f),
     headers |-> preflightRequestHeaders(f, h)]

----------------------------------------------------------------------------
(* The state machine *)

NoRequest == [kind |-> "none", uri |-> NULL, method |-> << >>, headers |-> EmptyObject,
              body |-> UNDEFINED]

NoStream == [state |-> "none", file |-> NULL, pos |-> 0, tick |-> FALSE]

\* ResourceLoader: no fetch call made yet.  state, value and reason are the
\* promise's; the rest is the closure of _readDataURL, _readFile or _request
NoLoader ==
    [kind |-> "none", state |-> "none", value |-> UNDEFINED, reason |-> "none",
     hasAbort |-> FALSE, abortedWhilePending |-> FALSE,
     timer |-> FALSE, body |-> UNDEFINED,
     stream |-> "none", file |-> NULL, pos |-> 0,
     pc |-> "idle", aborted |-> FALSE, urlString |-> NULL, uri |-> NULL,
     requestOptions |-> EmptyObject, requestsDone |-> 0, gatheredCookies |-> << >>,
     resp |-> NoResponse, err |-> "none", buffer |-> UNDEFINED, response |-> NULL,
     setCookieCalls |-> << >>, fetchCalls |-> 0]

\* the closure of one createClient call: what lines 289-310 declare per call
NoClient == [pc |-> "idle", aborted |-> FALSE, abortCalled |-> FALSE, requestsDone |-> 0,
             gatheredCookies |-> << >>, uri |-> NULL, resp |-> NoResponse, err |-> "none",
             events |-> << >>]

\* two operations and the cookie jar both of them write to
NoClients == [ops |-> << NoClient, NoClient >>, jar |-> << >>]

\* the standalone request() helper before it is called
NoLegacy ==
    [pc |-> "idle",
     options |-> [maxRedirects |-> [given |-> FALSE, value |-> 0], followRedirect |-> UNDEFINED,
                  jar |-> FALSE, auth |-> FALSE],
     redirectsLeft |-> 0, requests |-> 0, events |-> << >>, aborted |-> FALSE,
     gatheredCookies |-> 0, setCookieCalls |-> 0, statusCode |-> 0, thrown |-> "none"]

\* the variables of the other operations, which createClient's own never
\* touch, and the request manager, which holds nothing yet
InitOthers ==
    /\ loader = NoLoader
    /\ clients = NoClients
    /\ observed = << >>
    /\ requestManager = << >>
    /\ legacy = NoLegacy

Init ==
    /\ pc = "idle"
    /\ flag = FlagOf(Uri.A, Method.GET, EmptyObject, Origins.A, FALSE, NoAuth, NoJar, UNDEFINED, FALSE)
    /\ xhr = [readyState |-> READY_STATES.OPENED, status |-> 0, statusText |-> << >>,
              ownerDocument |-> TRUE,
              properties |-> [uploadListener |-> FALSE, uploadComplete |-> FALSE,
                              send |-> TRUE, error |-> << >>, origin |-> Origins.A,
                              responseCache |-> NULL, responseTextCache |-> NULL,
                              responseXMLCache |-> NULL, responseHeaders |-> EmptyObject]]
    /\ xhrEvents = << >>
    /\ requestHeaders = EmptyObject
    /\ options = optionsOf(flag)
    /\ response = [statusCode |-> 200, headers |-> EmptyObject]
    /\ aborted = FALSE
    /\ gatheredCookies = << >>
    /\ requestsDone = 0
    /\ uri = NULL
    /\ resp = NoResponse
    /\ err = "none"
    /\ buffer = UNDEFINED
    /\ events = << >>
    /\ setCookieCalls = << >>
    /\ preflightCalls = 0
    /\ realRequests = 0
    /\ lastRequest = NoRequest
    /\ authRetries = 0
    /\ abortAt = "never"
    /\ fetchCalls = 0
    /\ stream = NoStream
    /\ InitOthers

\* the real request with the method downgraded to GET after a redirect
fetchReal_methodDowngrade(u, opts, hdrs, isAborted) ==
    /\ uri' = u
    /\ fetchCalls' = fetchCalls + 1
    /\ IF u = NULL \/ ~SupportedByFetch(u) \/ isAborted
       THEN /\ pc' = "failed"
            /\ err' = IF u = NULL \/ ~SupportedByFetch(u) THEN "TypeError" ELSE "AbortError"
            /\ UNCHANGED << realRequests, lastRequest >>
       ELSE /\ pc' = "fetching"
            /\ err' = err
            /\ realRequests' = realRequests + 1
            /\ lastRequest' = [kind |-> "real", uri |-> u,
                               method |-> IF requestsDone > 0 THEN Method.GET ELSE opts.method,
                               headers |-> hdrs, body |-> opts.body]

\* fetch(u, options) of the real request: an invalid URL, a scheme other than
\* http(s) or an already aborted signal rejects at once and nothing is sent
fetchReal(u, opts, hdrs, isAborted) ==
    /\ uri' = u
    /\ fetchCalls' = fetchCalls + 1
    /\ IF u = NULL \/ ~SupportedByFetch(u) \/ isAborted
       THEN /\ pc' = "failed"
            /\ err' = IF u = NULL \/ ~SupportedByFetch(u) THEN "TypeError" ELSE "AbortError"
            /\ UNCHANGED << realRequests, lastRequest >>
       ELSE /\ pc' = "fetching"
            /\ err' = err
            /\ realRequests' = realRequests + 1
            /\ lastRequest' = [kind |-> "real", uri |-> u, method |-> opts.method,
                               headers |-> hdrs, body |-> opts.body]

\* the hop that leaves Authorization out when the target is another origin
doRequestTo_dropsAuthorization(u, opts, hdrs, isAborted) ==
    fetchReal(u, opts,
              IF u # NULL /\ URL(u).origin # URL(flag.uri).origin
              THEN SelectSeq(hdrs, LAMBDA e : e.k # HeaderName.Authorization)
              ELSE hdrs,
              isAborted)

\* doRequestTo(u): the fetch call; its then / then / catch handlers are the
\* actions doRequestTo_then, doRequestTo_buffer and doRequestTo_catch
doRequestTo(u, opts, hdrs, isAborted) == fetchReal(u, opts, hdrs, isAborted)

\* requestManager.add(req): the manager holds one more entry
requestManagerAdd(m, req) == Append(m, req)

\* requestManager.remove(req): the manager no longer holds the entry
requestManagerRemove(m, req) == SelectSeq(m, LAMBDA e : e # req)

\* rmReq not registered for abort
rmReqEvents_noAbort == { "error", "end" }

\* the events whose listener is rmReq (lines 199-201 and 456-458)
rmReqEvents == { "abort", "error", "end" }

\* lines 190-202 and 447-459: with a request manager, the entry is added and
\* rmReq listens for the events that end the operation
register(m, f) == IF f.requestManager THEN requestManagerAdd(m, "req") ELSE m

\* client.emit(e) for every event a step emits: the listeners registered with
\* client.on run, here rmReq
emit(m, f, before, after) ==
    IF /\ f.requestManager
       /\ URL(f.uri).protocol # "data:"
       /\ \E i \in (Len(before) + 1)..Len(after) : after[i] \in rmReqEvents
    THEN requestManagerRemove(m, "req")
    ELSE m

\* lines 209-236
createClientData(f) ==
    LET parsed == parseDataURL(URL(f.uri).href)
    IN  /\ flag' = f
        /\ requestHeaders' = EmptyObject
        /\ options' = options
        /\ IF parsed.ok
           THEN /\ response' = [statusCode |-> 200,
                                headers |-> Put(EmptyObject, << "content-type" >>, parsed.mimeType)]
                /\ buffer' = parsed.body
                /\ pc' = "data_tick1"
                /\ err' = err
           ELSE /\ response' = [statusCode |-> 200, headers |-> EmptyObject]
                /\ buffer' = buffer
                /\ pc' = "data_error_tick"
                /\ err' = "TypeError"
        /\ UNCHANGED << uri, preflightCalls, realRequests, lastRequest, fetchCalls,
                        requestManager >>

\* lines 163-207: the stream is created and the response tick scheduled
createClientFile(f) ==
    /\ flag' = f
    /\ requestHeaders' = EmptyObject
    /\ options' = options
    /\ response' = [statusCode |-> 200, headers |-> EmptyObject]
    /\ stream' = [state |-> "opening", file |-> FileSystem(filePath(URL(f.uri).pathname)),
                  pos |-> 0, tick |-> TRUE]
    /\ pc' = "file"
    /\ requestManager' = register(requestManager, f)
    /\ UNCHANGED << buffer, err, uri, preflightCalls, realRequests, lastRequest, fetchCalls >>

\* lines 238-461
createClientHttp(f, uploadListener) ==
    LET hdrs == initialRequestHeaders(f)
        href == URL(f.uri).href
    IN  /\ requestHeaders' = hdrs
        /\ options' = optionsOf(f)
        /\ response' = [statusCode |-> 200, headers |-> EmptyObject]
        /\ buffer' = buffer
        /\ IF needsPreflight(f, uploadListener)
           THEN /\ flag' = [f EXCEPT !.preflight = TRUE]
                /\ pc' = IF SupportedByFetch(href) THEN "pf_fetching" ELSE "pf_failed"
                /\ err' = IF SupportedByFetch(href) THEN err ELSE "TypeError"
                /\ uri' = href
                /\ fetchCalls' = fetchCalls + 1
                /\ preflightCalls' = preflightCalls + 1
                /\ lastRequest' = [kind |-> "preflight", uri |-> href, method |-> Method.OPTIONS,
                                   headers |-> preflightOptions(f, hdrs).headers,
                                   body |-> UNDEFINED]
                /\ UNCHANGED realRequests
           ELSE /\ flag' = f
                /\ doRequestTo(href, optionsOf(f), hdrs, FALSE)
                /\ UNCHANGED preflightCalls
        /\ requestManager' = register(requestManager, f)

createClient(f, uploadListener) ==
    /\ pc = "idle"
    /\ xhr' = [xhr EXCEPT !.properties.uploadListener = uploadListener,
                          !.properties.origin = f.origin]
    /\ IF URL(f.uri).protocol = "file:"
       THEN createClientFile(f)
       ELSE IF URL(f.uri).protocol = "data:"
       THEN createClientData(f) /\ UNCHANGED stream
       ELSE createClientHttp(f, uploadListener) /\ UNCHANGED stream
    /\ UNCHANGED << xhrEvents, aborted, gatheredCookies, requestsDone, resp, events,
                    setCookieCalls, authRetries, abortAt >>
    /\ UNCHANGED << loader, clients, observed, legacy >>

IsHttp == pc # "idle" /\ URL(flag.uri).protocol \in {"http:", "https:"}

IsFile == pc # "idle" /\ URL(flag.uri).protocol = "file:"

IsData == pc # "idle" /\ URL(flag.uri).protocol = "data:"

\* where a file: operation stands: "done" once nothing of it is outstanding
filePc(s) == IF s.tick \/ s.state \in {"opening", "flowing"} THEN "file" ELSE "done"

\* client.abort()
abort ==
    /\ pc # "idle"
    /\ IsData => parseDataURL(URL(flag.uri).href).ok
    /\ IsFile => Len(SelectSeq(events, LAMBDA e : e = "abort")) < MaxAborts
    /\ abortAt' = IF abortAt = "never" THEN pc ELSE abortAt
    /\ IF IsFile
       THEN \* lines 185-188: readableStream.destroy(); client.emit("abort")
            /\ stream' = IF stream.state \in {"opening", "flowing"}
                          THEN [stream EXCEPT !.state = "destroyed"] ELSE stream
            /\ events' = Append(events, "abort")
            /\ pc' = filePc(stream')
            /\ UNCHANGED << aborted, err >>
       ELSE IF IsData
       THEN \* lines 221-223
            UNCHANGED << aborted, pc, err, events, stream >>
       ELSE \* lines 290-292: abortController.abort()
            /\ aborted' = TRUE
            /\ IF ~aborted /\ pc \in {"fetching", "reading"}
               THEN pc' = "failed" /\ err' = "AbortError"
               ELSE IF ~aborted /\ pc = "pf_fetching"
               THEN pc' = "pf_failed" /\ err' = "AbortError"
               ELSE UNCHANGED << pc, err >>
            /\ UNCHANGED << events, stream >>
    /\ UNCHANGED << flag, xhr, xhrEvents, requestHeaders, options, response,
                    gatheredCookies, requestsDone, uri, resp, buffer,
                    setCookieCalls, preflightCalls, realRequests, lastRequest,
                    authRetries, fetchCalls, loader, clients, observed >>
    /\ requestManager' = emit(requestManager, flag, events, events')
    /\ UNCHANGED legacy

\* the transport answers the real request
fetchResolves(r) ==
    /\ pc = "fetching"
    /\ has(r.headers, << "set-cookie" >>) => Len(gatheredCookies) < MaxGathered
    /\ pc' = "fetched"
    /\ resp' = r
    /\ UNCHANGED << flag, xhr, xhrEvents, requestHeaders, options, response, aborted,
                    gatheredCookies, requestsDone, uri, err, buffer, events,
                    setCookieCalls, preflightCalls, realRequests, lastRequest,
                    authRetries, abortAt >>
    /\ UNCHANGED << fetchCalls, stream, loader, clients, observed, requestManager, legacy >>

\* the transport fails the real request (DNS, TLS, refused connection)
fetchRejects ==
    /\ pc = "fetching"
    /\ pc' = "failed"
    /\ err' = "NetworkError"
    /\ UNCHANGED << flag, xhr, xhrEvents, requestHeaders, options, response, aborted,
                    gatheredCookies, requestsDone, uri, resp, buffer, events,
                    setCookieCalls, preflightCalls, realRequests, lastRequest,
                    authRetries, abortAt >>
    /\ UNCHANGED << fetchCalls, stream, loader, clients, observed, requestManager, legacy >>

\* the commit of the last response's cookies alone
committedCookies_lastOnly(gathered, u) ==
    [i \in DOMAIN gathered[Len(gathered)] |-> << gathered[Len(gathered)][i], u >>]

\* the cookies the final response commits: every gathered value against u
committedCookies(gathered, u) ==
    [i \in DOMAIN Flatten(gathered) |-> << Flatten(gathered)[i], u >>]

\* resp.headers.forEach((value, key) => response.headers[key] = value)
copiedHeaders(target, headers) ==
    LET RECURSIVE copy(_, _)
        copy(t, i) == IF i > Len(headers) THEN t
                      ELSE copy(Put(t, headers[i].k, join(headers[i].v, << ", " >>)), i + 1)
    IN  copy(target, 1)

\* the retry condition without the test that no Authorization header is set
needsAuthRetry_everyTime(r, f, hdrs) ==
    /\ r.status = 401
    /\ f.auth.present
    /\ has(r.headers, << "www-authenticate" >>)

\* line 320: whether the response is answered by the one retry with credentials
needsAuthRetry(r, f, hdrs) ==
    /\ r.status = 401
    /\ f.auth.present
    /\ Get(hdrs, HeaderName.Authorization) = UNDEFINED
    /\ has(r.headers, << "www-authenticate" >>)

\* the limit tested one redirect late
exceededMaxRedirects_late(done) == done > MaxRequestsDone

\* line 338: whether the redirect just counted is one too many
exceededMaxRedirects(done) == done = MaxRequestsDone

\* lines 314-366: the handler of the real request's response
doRequestTo_then ==
    /\ pc = "fetched"
    /\ IF aborted
       THEN /\ events' = Append(events, "abort")
            /\ pc' = "done"
            /\ UNCHANGED << flag, requestHeaders, response, gatheredCookies, requestsDone,
                            uri, err, setCookieCalls, realRequests, lastRequest,
                            authRetries, fetchCalls >>
       ELSE IF needsAuthRetry(resp, flag, requestHeaders)
       THEN /\ requestHeaders' = Put(requestHeaders, HeaderName.Authorization, authHeader(flag.auth))
            /\ authRetries' = authRetries + 1
            /\ doRequestTo(uri, options, requestHeaders', aborted)
            /\ UNCHANGED << flag, response, gatheredCookies, requestsDone, events,
                            setCookieCalls >>
       ELSE LET gathered == IF has(resp.headers, << "set-cookie" >>)
                            THEN Append(gatheredCookies, raw(resp.headers, << "set-cookie" >>))
                            ELSE gatheredCookies
            IN  /\ gatheredCookies' = gathered
                /\ IF resp.status >= 300 /\ resp.status < 400
                   THEN /\ requestsDone' = requestsDone + 1
                        /\ IF exceededMaxRedirects(requestsDone')
                           THEN /\ pc' = "failed"
                                /\ err' = "Exceeded maxRedirects"
                                /\ UNCHANGED << events, uri, realRequests, lastRequest,
                                                fetchCalls >>
                           ELSE /\ events' = Append(events, "redirect")
                                /\ doRequestTo(get(resp.headers, << "location" >>), options,
                                               requestHeaders, aborted)
                        /\ UNCHANGED << flag, requestHeaders, response, setCookieCalls,
                                        authRetries >>
                   ELSE /\ IF Len(gathered) > 0
                           THEN /\ flag' = [flag EXCEPT !.cookieJar.present = TRUE]
                                /\ setCookieCalls' =
                                       setCookieCalls \o committedCookies(gathered, uri)
                           ELSE UNCHANGED << flag, setCookieCalls >>
                        /\ response' = [statusCode |-> resp.status,
                                        headers |-> copiedHeaders(response.headers, resp.headers)]
                        /\ events' = Append(events, "response")
                        /\ pc' = "reading"
                        /\ UNCHANGED << requestHeaders, requestsDone, uri, err, realRequests,
                                        lastRequest, authRetries, fetchCalls >>
    /\ UNCHANGED << xhr, xhrEvents, options, aborted, resp, buffer, preflightCalls, abortAt >>
    /\ UNCHANGED << stream, loader, clients, observed >>
    /\ requestManager' = emit(requestManager, flag, events, events')
    /\ UNCHANGED legacy

\* resp.buffer() resolves with the whole body
bufferResolves(b) ==
    /\ pc = "reading"
    /\ pc' = "read"
    /\ buffer' = b
    /\ UNCHANGED << flag, xhr, xhrEvents, requestHeaders, options, response, aborted,
                    gatheredCookies, requestsDone, uri, resp, err, events,
                    setCookieCalls, preflightCalls, realRequests, lastRequest,
                    authRetries, abortAt >>
    /\ UNCHANGED << fetchCalls, stream, loader, clients, observed, requestManager, legacy >>

\* resp.buffer() rejects: the connection broke while the body was read
bufferRejects ==
    /\ pc = "reading"
    /\ pc' = "failed"
    /\ err' = "NetworkError"
    /\ UNCHANGED << flag, xhr, xhrEvents, requestHeaders, options, response, aborted,
                    gatheredCookies, requestsDone, uri, resp, buffer, events,
                    setCookieCalls, preflightCalls, realRequests, lastRequest,
                    authRetries, abortAt >>
    /\ UNCHANGED << fetchCalls, stream, loader, clients, observed, requestManager, legacy >>

\* lines 367-376: the handler of the body
doRequestTo_buffer ==
    /\ pc = "read"
    /\ IF buffer # UNDEFINED
       THEN events' = events \o << "data", "end" >>
       ELSE events' = events
    /\ pc' = "done"
    /\ UNCHANGED << flag, xhr, xhrEvents, requestHeaders, options, response, aborted,
                    gatheredCookies, requestsDone, uri, resp, err, buffer,
                    setCookieCalls, preflightCalls, realRequests, lastRequest,
                    authRetries, abortAt >>
    /\ UNCHANGED << fetchCalls, stream, loader, clients, observed >>
    /\ requestManager' = emit(requestManager, flag, events, events')
    /\ UNCHANGED legacy

\* the catch handler without its test of signal.aborted
doRequestTo_catch_noAbortTest ==
    /\ pc = "failed"
    /\ events' = Append(events, "error")
    /\ pc' = "done"
    /\ UNCHANGED << flag, xhr, xhrEvents, requestHeaders, options, response, aborted,
                    gatheredCookies, requestsDone, uri, resp, err, buffer,
                    setCookieCalls, preflightCalls, realRequests, lastRequest,
                    authRetries, abortAt >>
    /\ UNCHANGED << fetchCalls, stream, loader, clients, observed >>
    /\ requestManager' = emit(requestManager, flag, events, events')
    /\ UNCHANGED legacy

\* the catch handler that swallows the failure
doRequestTo_catch_silent ==
    /\ pc = "failed"
    /\ events' = events
    /\ pc' = "done"
    /\ UNCHANGED << flag, xhr, xhrEvents, requestHeaders, options, response, aborted,
                    gatheredCookies, requestsDone, uri, resp, err, buffer,
                    setCookieCalls, preflightCalls, realRequests, lastRequest,
                    authRetries, abortAt >>
    /\ UNCHANGED << fetchCalls, stream, loader, clients, observed >>
    /\ requestManager' = emit(requestManager, flag, events, events')
    /\ UNCHANGED legacy

\* lines 377-383: the catch handler of the real request's chain
doRequestTo_catch ==
    /\ pc = "failed"
    /\ events' = Append(events, IF aborted THEN "abort" ELSE "error")
    /\ pc' = "done"
    /\ UNCHANGED << flag, xhr, xhrEvents, requestHeaders, options, response, aborted,
                    gatheredCookies, requestsDone, uri, resp, err, buffer,
                    setCookieCalls, preflightCalls, realRequests, lastRequest,
                    authRetries, abortAt >>
    /\ UNCHANGED << fetchCalls, stream, loader, clients, observed >>
    /\ requestManager' = emit(requestManager, flag, events, events')
    /\ UNCHANGED legacy

\* the transport answers the preflight call
preflightResolves(r) ==
    /\ pc = "pf_fetching"
    /\ pc' = "pf_fetched"
    /\ resp' = r
    /\ UNCHANGED << flag, xhr, xhrEvents, requestHeaders, options, response, aborted,
                    gatheredCookies, requestsDone, uri, err, buffer, events,
                    setCookieCalls, preflightCalls, realRequests, lastRequest,
                    authRetries, abortAt >>
    /\ UNCHANGED << fetchCalls, stream, loader, clients, observed, requestManager, legacy >>

\* the transport fails the preflight call
preflightRejects ==
    /\ pc = "pf_fetching"
    /\ pc' = "pf_failed"
    /\ err' = "NetworkError"
    /\ UNCHANGED << flag, xhr, xhrEvents, requestHeaders, options, response, aborted,
                    gatheredCookies, requestsDone, uri, resp, buffer, events,
                    setCookieCalls, preflightCalls, realRequests, lastRequest,
                    authRetries, abortAt >>
    /\ UNCHANGED << fetchCalls, stream, loader, clients, observed, requestManager, legacy >>

\* doRequest()
doRequest == doRequestTo(URL(flag.uri).href, options, requestHeaders, aborted)

\* the status test with its lower limit left out
invalidPreflightStatus_noLowerLimit(status) == status > 299

\* line 425: whether the preflight status forbids the real request
invalidPreflightStatus(status) == status < 200 \/ status > 299

\* lines 423-435: the handler of the preflight response
preflight_then ==
    /\ pc = "pf_fetched"
    /\ IF invalidPreflightStatus(resp.status)
       THEN /\ pc' = "pf_failed"
            /\ err' = "Response for preflight has invalid HTTP status code"
            /\ UNCHANGED << xhr, xhrEvents, uri, realRequests, lastRequest, fetchCalls >>
       ELSE IF validCORSPreflightHeadersError(resp, flag, xhr.properties) # NULL
       THEN /\ xhr' = setResponseToNetworkError(requestErrorSteps(
                        [xhr EXCEPT !.properties.error =
                            validCORSPreflightHeadersError(resp, flag, xhr.properties)], flag))
            /\ xhrEvents' = xhrEvents \o dispatchErrorEvents(xhr, flag)
            /\ pc' = "pf_failed"
            /\ err' = IF flag.synchronous THEN "NetworkError DOMException" ELSE "TODO"
            /\ UNCHANGED << uri, realRequests, lastRequest, fetchCalls >>
       ELSE /\ doRequest
            /\ UNCHANGED << xhr, xhrEvents >>
    /\ UNCHANGED << flag, requestHeaders, options, response, aborted, gatheredCookies,
                    requestsDone, resp, buffer, events, setCookieCalls, preflightCalls,
                    authRetries, abortAt >>
    /\ UNCHANGED << stream, loader, clients, observed, requestManager, legacy >>

\* abortController.signal.abort: an AbortSignal has the property "aborted" and
\* no property "abort"
signal_abort == UNDEFINED

\* lines 436-442: the catch handler of the preflight chain
preflight_catch ==
    /\ pc = "pf_failed"
    /\ events' = Append(events, IF Truthy(signal_abort) THEN "abort" ELSE "error")
    /\ pc' = "done"
    /\ UNCHANGED << flag, xhr, xhrEvents, requestHeaders, options, response, aborted,
                    gatheredCookies, requestsDone, uri, resp, err, buffer,
                    setCookieCalls, preflightCalls, realRequests, lastRequest,
                    authRetries, abortAt >>
    /\ UNCHANGED << fetchCalls, stream, loader, clients, observed >>
    /\ requestManager' = emit(requestManager, flag, events, events')
    /\ UNCHANGED legacy

\* the error tick of a createClient that goes on after the decode failure
data_error_tick_goesOn ==
    /\ pc = "data_error_tick"
    /\ events' = Append(events, "error")
    /\ pc' = "data_tick1"
    /\ UNCHANGED << flag, xhr, xhrEvents, requestHeaders, options, response, aborted,
                    gatheredCookies, requestsDone, uri, resp, err, buffer,
                    setCookieCalls, preflightCalls, realRequests, lastRequest,
                    authRetries, abortAt >>
    /\ UNCHANGED << fetchCalls, stream, loader, clients, observed >>
    /\ requestManager' = emit(requestManager, flag, events, events')
    /\ UNCHANGED legacy

\* line 217: the tick that reports a data URL that does not decode
data_error_tick ==
    /\ pc = "data_error_tick"
    /\ events' = Append(events, "error")
    /\ pc' = "done"
    /\ UNCHANGED << flag, xhr, xhrEvents, requestHeaders, options, response, aborted,
                    gatheredCookies, requestsDone, uri, resp, err, buffer,
                    setCookieCalls, preflightCalls, realRequests, lastRequest,
                    authRetries, abortAt >>
    /\ UNCHANGED << fetchCalls, stream, loader, clients, observed >>
    /\ requestManager' = emit(requestManager, flag, events, events')
    /\ UNCHANGED legacy

\* lines 225-226: the first tick of a decoded data URL
data_response_tick ==
    /\ pc = "data_tick1"
    /\ events' = Append(events, "response")
    /\ pc' = "data_tick2"
    /\ UNCHANGED << flag, xhr, xhrEvents, requestHeaders, options, response, aborted,
                    gatheredCookies, requestsDone, uri, resp, err, buffer,
                    setCookieCalls, preflightCalls, realRequests, lastRequest,
                    authRetries, abortAt >>
    /\ UNCHANGED << fetchCalls, stream, loader, clients, observed >>
    /\ requestManager' = emit(requestManager, flag, events, events')
    /\ UNCHANGED legacy

\* lines 227-232: the second tick of a decoded data URL
data_body_tick ==
    /\ pc = "data_tick2"
    /\ events' = events \o << "data", "end" >>
    /\ pc' = "done"
    /\ UNCHANGED << flag, xhr, xhrEvents, requestHeaders, options, response, aborted,
                    gatheredCookies, requestsDone, uri, resp, err, buffer,
                    setCookieCalls, preflightCalls, realRequests, lastRequest,
                    authRetries, abortAt >>
    /\ UNCHANGED << fetchCalls, stream, loader, clients, observed >>
    /\ requestManager' = emit(requestManager, flag, events, events')
    /\ UNCHANGED legacy

\* line 204: the tick that emits response; ticks run before any stream event
file_response_tick ==
    /\ pc = "file"
    /\ stream.tick
    /\ stream' = [stream EXCEPT !.tick = FALSE]
    /\ events' = Append(events, "response")
    /\ pc' = filePc(stream')
    /\ UNCHANGED << flag, xhr, xhrEvents, requestHeaders, options, response, aborted,
                    gatheredCookies, requestsDone, uri, resp, err, buffer,
                    setCookieCalls, preflightCalls, realRequests, lastRequest,
                    authRetries, abortAt, fetchCalls, loader, clients, observed >>
    /\ requestManager' = emit(requestManager, flag, events, events')
    /\ UNCHANGED legacy

\* lines 171-174: the stream hands over the next n bytes
stream_data(n) ==
    /\ pc = "file"
    /\ ~stream.tick
    /\ stream.state \in {"opening", "flowing"}
    /\ stream.file # NULL
    /\ stream.pos + n <= Len(stream.file)
    /\ stream' = [stream EXCEPT !.state = "flowing", !.pos = stream.pos + n]
    /\ buffer' = SubSeq(stream.file, stream.pos + 1, stream.pos + n)
    /\ events' = Append(events, "data")
    /\ pc' = "file"
    /\ UNCHANGED << flag, xhr, xhrEvents, requestHeaders, options, response, aborted,
                    gatheredCookies, requestsDone, uri, resp, err,
                    setCookieCalls, preflightCalls, realRequests, lastRequest,
                    authRetries, abortAt, fetchCalls, loader, clients, observed >>
    /\ requestManager' = emit(requestManager, flag, events, events')
    /\ UNCHANGED legacy

\* lines 176-179: the stream has handed over every byte
stream_end ==
    /\ pc = "file"
    /\ ~stream.tick
    /\ stream.state \in {"opening", "flowing"}
    /\ stream.file # NULL
    /\ stream.pos = Len(stream.file)
    /\ stream' = [stream EXCEPT !.state = "ended"]
    /\ events' = Append(events, "end")
    /\ pc' = "done"
    /\ UNCHANGED << flag, xhr, xhrEvents, requestHeaders, options, response, aborted,
                    gatheredCookies, requestsDone, uri, resp, err, buffer,
                    setCookieCalls, preflightCalls, realRequests, lastRequest,
                    authRetries, abortAt, fetchCalls, loader, clients, observed >>
    /\ requestManager' = emit(requestManager, flag, events, events')
    /\ UNCHANGED legacy

\* lines 181-183: the file cannot be opened, or a read fails
stream_error ==
    /\ pc = "file"
    /\ ~stream.tick
    /\ stream.state \in {"opening", "flowing"}
    /\ stream' = [stream EXCEPT !.state = "errored"]
    /\ err' = "FileError"
    /\ events' = Append(events, "error")
    /\ pc' = "done"
    /\ UNCHANGED << flag, xhr, xhrEvents, requestHeaders, options, response, aborted,
                    gatheredCookies, requestsDone, uri, resp, buffer,
                    setCookieCalls, preflightCalls, realRequests, lastRequest,
                    authRetries, abortAt, fetchCalls, loader, clients, observed >>
    /\ requestManager' = emit(requestManager, flag, events, events')
    /\ UNCHANGED legacy

----------------------------------------------------------------------------
(* Two createClient operations at once.  Each call of createClient has its  *)
(* own abortController, gatheredCookies and requestsDone (lines 289, 309,   *)
(* 310); the operations are same-origin GET requests without credentials,   *)
(* so neither the preflight nor the 401 retry takes part.                   *)

PairFlag == FlagOf(Uri.A, Method.GET, EmptyObject, Origins.A, FALSE, NoAuth, NoJar, UNDEFINED, FALSE)

\* the cookie the server hands to operation i
PairCookie(i) == IF i = 1 THEN << "op1=x" >> ELSE << "op2=x" >>

\* what the server may answer to operation i
PairResponses(i) ==
    { [status |-> 200, headers |-> HeadersOf(<< >>, NULL, FALSE)],
      [status |-> 302, headers |-> HeadersOf(<< >>, Uri.A2, FALSE)],
      [status |-> 302, headers |-> HeadersOf(<< PairCookie(i) >>, Uri.A2, FALSE)] }

Other(i) == 3 - i

\* lines 148-461 for PairFlag: the first doRequestTo call
pair_createClient(i) ==
    /\ clients.ops[i].pc = "idle"
    /\ ~needsPreflight(PairFlag, FALSE)
    /\ clients' = [clients EXCEPT !.ops[i] =
                      [NoClient EXCEPT !.pc = "fetching", !.uri = URL(PairFlag.uri).href]]
    /\ UNCHANGED << pc, flag, xhr, xhrEvents, requestHeaders, options, response, aborted,
                    gatheredCookies, requestsDone, uri, resp, err, buffer, events,
                    setCookieCalls, preflightCalls, realRequests, lastRequest,
                    authRetries, abortAt, fetchCalls, stream, loader, observed, requestManager, legacy >>

\* an abort() that signals one controller shared by both operations
pair_abort_sharedSignal(i) ==
    LET signalled(c) ==
            [c EXCEPT !.aborted = TRUE,
                      !.pc = IF ~c.aborted /\ c.pc \in {"fetching", "reading"}
                             THEN "failed" ELSE c.pc,
                      !.err = IF ~c.aborted /\ c.pc \in {"fetching", "reading"}
                              THEN "AbortError" ELSE c.err]
    IN  /\ clients.ops[i].pc # "idle"
        /\ clients' = [clients EXCEPT
                          !.ops[i] = [signalled(clients.ops[i]) EXCEPT !.abortCalled = TRUE],
                          !.ops[Other(i)] = IF clients.ops[Other(i)].pc = "idle"
                                            THEN clients.ops[Other(i)]
                                            ELSE signalled(clients.ops[Other(i)])]
        /\ UNCHANGED << pc, flag, xhr, xhrEvents, requestHeaders, options, response, aborted,
                        gatheredCookies, requestsDone, uri, resp, err, buffer, events,
                        setCookieCalls, preflightCalls, realRequests, lastRequest,
                        authRetries, abortAt, fetchCalls, stream, loader, observed, requestManager, legacy >>

\* lines 290-292: client.abort() of operation i
pair_abort(i) ==
    LET c == clients.ops[i]
        outstanding == ~c.aborted /\ c.pc \in {"fetching", "reading"}
    IN  /\ c.pc # "idle"
        /\ clients' = [clients EXCEPT !.ops[i] =
                          [c EXCEPT !.aborted = TRUE, !.abortCalled = TRUE,
                                    !.pc = IF outstanding THEN "failed" ELSE c.pc,
                                    !.err = IF outstanding THEN "AbortError" ELSE c.err]]
        /\ UNCHANGED << pc, flag, xhr, xhrEvents, requestHeaders, options, response, aborted,
                        gatheredCookies, requestsDone, uri, resp, err, buffer, events,
                        setCookieCalls, preflightCalls, realRequests, lastRequest,
                        authRetries, abortAt, fetchCalls, stream, loader, observed, requestManager, legacy >>

\* the transport answers operation i
pair_fetchResolves(i, r) ==
    /\ clients.ops[i].pc = "fetching"
    /\ has(r.headers, << "set-cookie" >>) =>
           Len(clients.ops[i].gatheredCookies) < MaxPairGathered
    /\ clients' = [clients EXCEPT !.ops[i].pc = "fetched", !.ops[i].resp = r]
    /\ UNCHANGED << pc, flag, xhr, xhrEvents, requestHeaders, options, response, aborted,
                    gatheredCookies, requestsDone, uri, resp, err, buffer, events,
                    setCookieCalls, preflightCalls, realRequests, lastRequest,
                    authRetries, abortAt, fetchCalls, stream, loader, observed, requestManager, legacy >>

\* the transport fails operation i
pair_fetchRejects(i) ==
    /\ clients.ops[i].pc = "fetching"
    /\ clients' = [clients EXCEPT !.ops[i].pc = "failed", !.ops[i].err = "NetworkError"]
    /\ UNCHANGED << pc, flag, xhr, xhrEvents, requestHeaders, options, response, aborted,
                    gatheredCookies, requestsDone, uri, resp, err, buffer, events,
                    setCookieCalls, preflightCalls, realRequests, lastRequest,
                    authRetries, abortAt, fetchCalls, stream, loader, observed, requestManager, legacy >>

\* lines 314-366 for operation i (flag.auth is not set)
pair_then(i) ==
    LET c == clients.ops[i]
        gathered == IF has(c.resp.headers, << "set-cookie" >>)
                    THEN Append(c.gatheredCookies, raw(c.resp.headers, << "set-cookie" >>))
                    ELSE c.gatheredCookies
        location == get(c.resp.headers, << "location" >>)
        committed == IF Len(gathered) > 0 THEN committedCookies(gathered, c.uri) ELSE << >>
    IN  /\ c.pc = "fetched"
        /\ ~needsAuthRetry(c.resp, PairFlag, EmptyObject)
        /\ IF c.aborted
           THEN clients' = [clients EXCEPT !.ops[i].events = Append(c.events, "abort"),
                                           !.ops[i].pc = "done"]
           ELSE IF c.resp.status >= 300 /\ c.resp.status < 400
           THEN IF exceededMaxRedirects(c.requestsDone + 1)
                THEN clients' = [clients EXCEPT
                                   !.ops[i].gatheredCookies = gathered,
                                   !.ops[i].requestsDone = c.requestsDone + 1,
                                   !.ops[i].pc = "failed",
                                   !.ops[i].err = "Exceeded maxRedirects"]
                ELSE clients' = [clients EXCEPT
                                   !.ops[i].gatheredCookies = gathered,
                                   !.ops[i].requestsDone = c.requestsDone + 1,
                                   !.ops[i].events = Append(c.events, "redirect"),
                                   !.ops[i].uri = location,
                                   !.ops[i].pc = IF location = NULL THEN "failed" ELSE "fetching",
                                   !.ops[i].err = IF location = NULL THEN "TypeError" ELSE c.err]
           ELSE clients' = [clients EXCEPT
                              !.ops[i].gatheredCookies = gathered,
                              !.ops[i].events = Append(c.events, "response"),
                              !.ops[i].pc = "reading",
                              !.jar = clients.jar \o
                                  [k \in DOMAIN committed |->
                                      [value |-> committed[k][1], uri |-> committed[k][2],
                                       by |-> i]]]
        /\ UNCHANGED << pc, flag, xhr, xhrEvents, requestHeaders, options, response, aborted,
                        gatheredCookies, requestsDone, uri, resp, err, buffer, events,
                        setCookieCalls, preflightCalls, realRequests, lastRequest,
                        authRetries, abortAt, fetchCalls, stream, loader, observed, requestManager, legacy >>

\* resp.buffer() of operation i resolves; lines 367-376 emit data and end
pair_buffer(i) ==
    /\ clients.ops[i].pc = "reading"
    /\ clients' = [clients EXCEPT
                      !.ops[i].events = clients.ops[i].events \o << "data", "end" >>,
                      !.ops[i].pc = "done"]
    /\ UNCHANGED << pc, flag, xhr, xhrEvents, requestHeaders, options, response, aborted,
                    gatheredCookies, requestsDone, uri, resp, err, buffer, events,
                    setCookieCalls, preflightCalls, realRequests, lastRequest,
                    authRetries, abortAt, fetchCalls, stream, loader, observed, requestManager, legacy >>

\* lines 377-383 for operation i
pair_catch(i) ==
    /\ clients.ops[i].pc = "failed"
    /\ clients' = [clients EXCEPT
                      !.ops[i].events = Append(clients.ops[i].events,
                                               IF clients.ops[i].aborted THEN "abort" ELSE "error"),
                      !.ops[i].pc = "done"]
    /\ UNCHANGED << pc, flag, xhr, xhrEvents, requestHeaders, options, response, aborted,
                    gatheredCookies, requestsDone, uri, resp, err, buffer, events,
                    setCookieCalls, preflightCalls, realRequests, lastRequest,
                    authRetries, abortAt, fetchCalls, stream, loader, observed, requestManager, legacy >>

NextPair ==
    \E i \in 1..2 :
        \/ pair_createClient(i)
        \/ pair_abort(i)
        \/ \E r \in PairResponses(i) : pair_fetchResolves(i, r)
        \/ pair_fetchRejects(i)
        \/ pair_then(i)
        \/ pair_buffer(i)
        \/ pair_catch(i)

SpecPair == Init /\ [][NextPair]_vars

----------------------------------------------------------------------------
(* ResourceLoader.fetch (lib/jsdom/browser/resources/resource-loader.js)    *)

\* parseURL(urlString).scheme, NULL when the URL does not parse
parseURLScheme(u) ==
    IF u = Uri.Invalid THEN NULL
    ELSE CASE URL(u).protocol = "http:" -> << "http" >>
           [] URL(u).protocol = "https:" -> << "https" >>
           [] URL(u).protocol = "data:" -> << "data" >>
           [] URL(u).protocol = "file:" -> << "file" >>
           [] URL(u).protocol = "ftp:" -> << "ftp" >>

\* the characters of a file: URL string
fileUrlString(u) == << "f","i","l","e",":","/","/" >> \o URL(u).pathname

\* the options of ResourceLoader.fetch: the jar, the referrer, the Accept value
LoaderOptions ==
    { [cookieJar |-> j, referrer |-> r, accept |-> UNDEFINED] :
        j \in {NoJar, [present |-> TRUE, cookies |-> << << "sid=1" >>, << "t=2" >> >>]},
        r \in {UNDEFINED, << "http://ref.test/page" >>} }

\* lines 88-114: requestOptions.headers
getRequestOptionsHeaders(o) ==
    LET h0 == Put(Put(Put(Put(EmptyObject,
                  HeaderName.User_Agent, << "jsdom" >>),
                  HeaderName.Accept_Language, << "en" >>),
                  HeaderName.Accept_Encoding, << "gzip" >>),
                  HeaderName.Accept, IF o.accept = UNDEFINED THEN << "*/*" >> ELSE o.accept)
        h1 == IF Len(o.cookieJar.cookies) > 0
              THEN Put(h0, HeaderName.Cookie, join(o.cookieJar.cookies, << "; " >>)) ELSE h0
    IN  IF Truthy(o.referrer) THEN Put(h1, HeaderName.Referer, o.referrer) ELSE h1

\* lines 29-41
readDataURL(u) ==
    LET dataURL == parseDataURL(u)
    IN  IF dataURL.ok
        THEN [NoLoader EXCEPT !.kind = "data", !.state = "pending", !.hasAbort = TRUE,
                              !.urlString = u, !.timer = TRUE, !.body = dataURL.body]
        ELSE \* dataURL is null: reading dataURL.body throws inside the executor
             [NoLoader EXCEPT !.kind = "data", !.state = "rejected", !.hasAbort = TRUE,
                              !.urlString = u, !.reason = "TypeError"]

\* lines 43-77
readFile(u, path) ==
    [NoLoader EXCEPT !.kind = "file", !.state = "pending", !.hasAbort = TRUE,
                     !.urlString = u, !.stream = "opening", !.file = FileSystem(path),
                     !.buffer = << >>]

\* lines 116-196, up to the first fetch call
request(u, o) ==
    [NoLoader EXCEPT !.kind = "http", !.state = "pending", !.hasAbort = TRUE,
                     !.urlString = u, !.uri = u, !.pc = "fetching",
                     !.requestOptions = getRequestOptionsHeaders(o), !.fetchCalls = 1]

\* lines 198-231
loader_fetch(u, o) ==
    /\ loader.kind = "none"
    /\ loader' =
          IF parseURLScheme(u) = NULL
          THEN [NoLoader EXCEPT !.kind = "invalid", !.state = "rejected", !.urlString = u,
                                !.reason = "Tried to fetch invalid URL"]
          ELSE CASE parseURLScheme(u) = << "data" >> -> readDataURL(u)
                 [] parseURLScheme(u) \in {<< "http" >>, << "https" >>} -> request(u, o)
                 [] parseURLScheme(u) = << "file" >> ->
                        readFile(u, replacePercent20(replaceDriveLetter(
                                        replaceFileScheme(fileUrlString(u)))))
                 [] OTHER -> [NoLoader EXCEPT !.kind = "unsupported", !.state = "rejected",
                                              !.urlString = u,
                                              !.reason = "Tried to fetch URL with invalid scheme"]
    /\ UNCHANGED << pc, flag, xhr, xhrEvents, requestHeaders, options, response, aborted,
                    gatheredCookies, requestsDone, uri, resp, err, buffer, events,
                    setCookieCalls, preflightCalls, realRequests, lastRequest,
                    authRetries, abortAt, fetchCalls, stream, clients, observed, requestManager, legacy >>

\* promise.abort(): lines 35-39, 69-74 and 118-124
loader_abort ==
    /\ loader.hasAbort
    /\ loader' =
          LET l == [loader EXCEPT !.abortedWhilePending = @ \/ loader.state = "pending"]
          IN  CASE l.kind = "data" -> [l EXCEPT !.timer = FALSE]
                [] l.kind = "file" ->
                      [l EXCEPT !.stream = IF @ \in {"opening", "flowing"} THEN "destroyed" ELSE @,
                                !.state = IF @ = "pending" THEN "rejected" ELSE @,
                                !.reason = IF l.state = "pending"
                                           THEN "request canceled by user" ELSE @]
                [] l.kind = "http" ->
                      IF l.aborted THEN l
                      ELSE [l EXCEPT !.aborted = TRUE,
                                     !.pc = IF @ \in {"fetching", "reading"} THEN "failed" ELSE @,
                                     !.err = IF l.pc \in {"fetching", "reading"}
                                             THEN "AbortError" ELSE @]
    /\ UNCHANGED << pc, flag, xhr, xhrEvents, requestHeaders, options, response, aborted,
                    gatheredCookies, requestsDone, uri, resp, err, buffer, events,
                    setCookieCalls, preflightCalls, realRequests, lastRequest,
                    authRetries, abortAt, fetchCalls, stream, clients, observed, requestManager, legacy >>

\* line 33: the timer resolves the promise with the body
loader_timer ==
    /\ loader.kind = "data"
    /\ loader.timer
    /\ loader' = [loader EXCEPT !.timer = FALSE, !.state = "resolved", !.value = loader.body]
    /\ UNCHANGED << pc, flag, xhr, xhrEvents, requestHeaders, options, response, aborted,
                    gatheredCookies, requestsDone, uri, resp, err, buffer, events,
                    setCookieCalls, preflightCalls, realRequests, lastRequest,
                    authRetries, abortAt, fetchCalls, stream, clients, observed, requestManager, legacy >>

\* lines 60-62: the stream hands over the next n bytes
loader_stream_data(n) ==
    /\ loader.kind = "file"
    /\ loader.stream \in {"opening", "flowing"}
    /\ loader.file # NULL
    /\ loader.pos + n <= Len(loader.file)
    /\ loader' = [loader EXCEPT !.stream = "flowing", !.pos = @ + n,
                                !.buffer = @ \o SubSeq(loader.file, loader.pos + 1, loader.pos + n)]
    /\ UNCHANGED << pc, flag, xhr, xhrEvents, requestHeaders, options, response, aborted,
                    gatheredCookies, requestsDone, uri, resp, err, buffer, events,
                    setCookieCalls, preflightCalls, realRequests, lastRequest,
                    authRetries, abortAt, fetchCalls, stream, clients, observed, requestManager, legacy >>

\* lines 64-66
loader_stream_end ==
    /\ loader.kind = "file"
    /\ loader.stream \in {"opening", "flowing"}
    /\ loader.file # NULL
    /\ loader.pos = Len(loader.file)
    /\ loader' = [loader EXCEPT !.stream = "ended", !.state = "resolved",
                                !.value = loader.buffer]
    /\ UNCHANGED << pc, flag, xhr, xhrEvents, requestHeaders, options, response, aborted,
                    gatheredCookies, requestsDone, uri, resp, err, buffer, events,
                    setCookieCalls, preflightCalls, realRequests, lastRequest,
                    authRetries, abortAt, fetchCalls, stream, clients, observed, requestManager, legacy >>

\* line 58: the file cannot be opened, or a read fails
loader_stream_error ==
    /\ loader.kind = "file"
    /\ loader.stream \in {"opening", "flowing"}
    /\ loader' = [loader EXCEPT !.stream = "errored", !.state = "rejected",
                                !.reason = "FileError"]
    /\ UNCHANGED << pc, flag, xhr, xhrEvents, requestHeaders, options, response, aborted,
                    gatheredCookies, requestsDone, uri, resp, err, buffer, events,
                    setCookieCalls, preflightCalls, realRequests, lastRequest,
                    authRetries, abortAt, fetchCalls, stream, clients, observed, requestManager, legacy >>

\* the transport answers
loader_fetchResolves(r) ==
    /\ loader.kind = "http"
    /\ loader.pc = "fetching"
    /\ has(r.headers, << "set-cookie" >>) => Len(loader.gatheredCookies) < MaxGathered
    /\ loader' = [loader EXCEPT !.pc = "fetched", !.resp = r]
    /\ UNCHANGED << pc, flag, xhr, xhrEvents, requestHeaders, options, response, aborted,
                    gatheredCookies, requestsDone, uri, resp, err, buffer, events,
                    setCookieCalls, preflightCalls, realRequests, lastRequest,
                    authRetries, abortAt, fetchCalls, stream, clients, observed, requestManager, legacy >>

\* the transport fails
loader_fetchRejects ==
    /\ loader.kind = "http"
    /\ loader.pc = "fetching"
    /\ loader' = [loader EXCEPT !.pc = "failed", !.err = "NetworkError"]
    /\ UNCHANGED << pc, flag, xhr, xhrEvents, requestHeaders, options, response, aborted,
                    gatheredCookies, requestsDone, uri, resp, err, buffer, events,
                    setCookieCalls, preflightCalls, realRequests, lastRequest,
                    authRetries, abortAt, fetchCalls, stream, clients, observed, requestManager, legacy >>

\* lines 177-184: every gathered cookie, committed against urlString
loaderCommittedCookies(l) ==
    [i \in DOMAIN Flatten(l.gatheredCookies) |-> << Flatten(l.gatheredCookies)[i], l.urlString >>]

\* lines 134-160: the handler of the response
loader_then ==
    LET l == loader
        gathered == IF has(l.resp.headers, << "set-cookie" >>)
                       /\ raw(l.resp.headers, << "set-cookie" >>) # UNDEFINED
                    THEN Append(l.gatheredCookies, raw(l.resp.headers, << "set-cookie" >>))
                    ELSE l.gatheredCookies
        location == get(l.resp.headers, << "location" >>)
    IN  /\ l.kind = "http"
        /\ l.pc = "fetched"
        /\ loader' =
              IF l.resp.status > 400
              THEN [l EXCEPT !.pc = "failed", !.err = "ReferenceError"]
              ELSE IF l.resp.status >= 300 /\ l.resp.status < 400
              THEN IF l.requestsDone + 1 = MaxLoaderRequestsDone
                   THEN [l EXCEPT !.gatheredCookies = gathered, !.requestsDone = @ + 1,
                                  !.pc = "failed", !.err = "too many redirects"]
                   ELSE [l EXCEPT !.gatheredCookies = gathered, !.requestsDone = @ + 1,
                                  !.uri = location, !.fetchCalls = @ + 1,
                                  !.pc = IF location = NULL \/ l.aborted
                                         THEN "failed" ELSE "fetching",
                                  !.err = IF location = NULL THEN "TypeError"
                                          ELSE IF l.aborted THEN "AbortError" ELSE @]
              ELSE [l EXCEPT !.gatheredCookies = gathered,
                             !.response = Put(Put(EmptyObject, << "status" >>, l.resp.status),
                                              << "headers" >>, l.resp.headers),
                             !.pc = IF l.aborted THEN "failed" ELSE "reading",
                             !.err = IF l.aborted THEN "AbortError" ELSE @]
    /\ UNCHANGED << pc, flag, xhr, xhrEvents, requestHeaders, options, response, aborted,
                    gatheredCookies, requestsDone, uri, resp, err, buffer, events,
                    setCookieCalls, preflightCalls, realRequests, lastRequest,
                    authRetries, abortAt, fetchCalls, stream, clients, observed, requestManager, legacy >>

\* response.buffer() resolves with the whole body
loader_bufferResolves(b) ==
    /\ loader.kind = "http"
    /\ loader.pc = "reading"
    /\ loader' = [loader EXCEPT !.pc = "read", !.buffer = b]
    /\ UNCHANGED << pc, flag, xhr, xhrEvents, requestHeaders, options, response, aborted,
                    gatheredCookies, requestsDone, uri, resp, err, buffer, events,
                    setCookieCalls, preflightCalls, realRequests, lastRequest,
                    authRetries, abortAt, fetchCalls, stream, clients, observed, requestManager, legacy >>

\* response.buffer() rejects
loader_bufferRejects ==
    /\ loader.kind = "http"
    /\ loader.pc = "reading"
    /\ loader' = [loader EXCEPT !.pc = "failed", !.err = "NetworkError"]
    /\ UNCHANGED << pc, flag, xhr, xhrEvents, requestHeaders, options, response, aborted,
                    gatheredCookies, requestsDone, uri, resp, err, buffer, events,
                    setCookieCalls, preflightCalls, realRequests, lastRequest,
                    authRetries, abortAt, fetchCalls, stream, clients, observed, requestManager, legacy >>

\* lines 161-166: the handler of the body
loader_buffer ==
    /\ loader.kind = "http"
    /\ loader.pc = "read"
    /\ loader' = [loader EXCEPT !.pc = "body",
                                !.body = IF loader.buffer = NULL \/ loader.aborted
                                         THEN NULL ELSE loader.buffer]
    /\ UNCHANGED << pc, flag, xhr, xhrEvents, requestHeaders, options, response, aborted,
                    gatheredCookies, requestsDone, uri, resp, err, buffer, events,
                    setCookieCalls, preflightCalls, realRequests, lastRequest,
                    authRetries, abortAt, fetchCalls, stream, clients, observed, requestManager, legacy >>

\* lines 167-172: the catch handler
loader_catch ==
    /\ loader.kind = "http"
    /\ loader.pc = "failed"
    /\ loader' = IF loader.aborted
                 THEN [loader EXCEPT !.pc = "body", !.body = NULL]
                 ELSE [loader EXCEPT !.pc = "settled", !.state = "rejected",
                                     !.reason = loader.err]
    /\ UNCHANGED << pc, flag, xhr, xhrEvents, requestHeaders, options, response, aborted,
                    gatheredCookies, requestsDone, uri, resp, err, buffer, events,
                    setCookieCalls, preflightCalls, realRequests, lastRequest,
                    authRetries, abortAt, fetchCalls, stream, clients, observed, requestManager, legacy >>

\* lines 176-186: the cookie commit and the promise's value
loader_commit ==
    /\ loader.kind = "http"
    /\ loader.pc = "body"
    /\ loader' = [loader EXCEPT
                     !.pc = "settled", !.state = "resolved", !.value = loader.body,
                     !.setCookieCalls =
                         IF loader.body # NULL /\ Len(loader.gatheredCookies) > 0
                         THEN @ \o loaderCommittedCookies(loader) ELSE @]
    /\ UNCHANGED << pc, flag, xhr, xhrEvents, requestHeaders, options, response, aborted,
                    gatheredCookies, requestsDone, uri, resp, err, buffer, events,
                    setCookieCalls, preflightCalls, realRequests, lastRequest,
                    authRetries, abortAt, fetchCalls, stream, clients, observed, requestManager, legacy >>

NextLoader ==
    \/ \E u \in {Uri.A, Uri.B, Uri.DataHello, Uri.DataBad, Uri.FileAB, Uri.FileSpace, Uri.FileMissing, Uri.FtpB,
                  Uri.Invalid}, o \in LoaderOptions : loader_fetch(u, o)
    \/ loader_abort
    \/ loader_timer
    \/ \E n \in 1..HighWaterMark : loader_stream_data(n)
    \/ loader_stream_end
    \/ loader_stream_error
    \/ \E r \in Responses : loader_fetchResolves(r)
    \/ loader_fetchRejects
    \/ loader_then
    \/ \E b \in ResponseBodies : loader_bufferResolves(b)
    \/ loader_bufferRejects
    \/ loader_buffer
    \/ loader_catch
    \/ loader_commit

SpecLoader == Init /\ [][NextLoader]_vars

----------------------------------------------------------------------------
(* The standalone request(urlString, options) helper                       *)

\* the redirects followed when options.maxRedirects is not given
DefaultMaxRedirects == 5

\* options of request(): maxRedirects absent or a number, followRedirect
\* absent or false, a cookie jar or none, credentials or none
LegacyOptions ==
    { [maxRedirects |-> m, followRedirect |-> fr, jar |-> j, auth |-> a] :
        m \in { [given |-> FALSE, value |-> 0], [given |-> TRUE, value |-> 0],
                [given |-> TRUE, value |-> 1], [given |-> TRUE, value |-> 3] },
        fr \in { UNDEFINED, << "false" >> },
        j \in BOOLEAN, a \in BOOLEAN }

\* what the server may answer to a request of the helper
LegacyResponses ==
    { [statusCode |-> s, setCookie |-> c, location |-> TRUE, challenge |-> FALSE] :
        s \in {200, 204, 304, 404}, c \in BOOLEAN }
    \cup { [statusCode |-> s, setCookie |-> FALSE, location |-> l, challenge |-> FALSE] :
             s \in {301, 303}, l \in BOOLEAN }
    \cup { [statusCode |-> 401, setCookie |-> FALSE, location |-> TRUE, challenge |-> w] :
             w \in BOOLEAN }

\* options.maxRedirects || 5: the number given unless it is absent or 0
redirectsLeftOf(o) ==
    IF o.maxRedirects.given /\ o.maxRedirects.value # 0
    THEN o.maxRedirects.value
    ELSE DefaultMaxRedirects

\* request(urlString, options) for an http URL: emits request and sends the
\* first request
legacy_request(o) ==
    /\ legacy.pc = "idle"
    /\ legacy' = [legacy EXCEPT !.pc = "requesting", !.options = o,
                                !.redirectsLeft = redirectsLeftOf(o),
                                !.requests = 1, !.events = << "request" >>]
    /\ UNCHANGED << pc, flag, xhr, xhrEvents, requestHeaders, options, response, aborted,
                    gatheredCookies, requestsDone, uri, resp, err, buffer, events,
                    setCookieCalls, preflightCalls, realRequests, lastRequest,
                    authRetries, abortAt, fetchCalls, stream, loader, clients, observed,
                    requestManager >>

\* result.abort()
legacy_abort ==
    /\ legacy.pc # "idle"
    /\ legacy' = [legacy EXCEPT !.aborted = TRUE]
    /\ UNCHANGED << pc, flag, xhr, xhrEvents, requestHeaders, options, response, aborted,
                    gatheredCookies, requestsDone, uri, resp, err, buffer, events,
                    setCookieCalls, preflightCalls, realRequests, lastRequest,
                    authRetries, abortAt, fetchCalls, stream, loader, clients, observed,
                    requestManager >>

\* errorHandler(error): no error event after an abort by the caller
errorHandler(l) ==
    [l EXCEPT !.pc = "done",
              !.events = IF l.aborted THEN l.events ELSE Append(l.events, "error")]

\* onRedirect(response): the counter is tested, then decremented
onRedirect(l, r) ==
    LET counted == [l EXCEPT !.redirectsLeft = l.redirectsLeft - 1]
    IN  IF l.redirectsLeft = 0
        THEN errorHandler(counted)
        ELSE IF ~r.location
        THEN [counted EXCEPT !.pc = "done", !.thrown = "TypeError"]
        ELSE [counted EXCEPT !.pc = "requesting",
                             !.events = Append(counted.events, "redirect"),
                             !.requests = counted.requests + 1]

\* onData(response): the gathered cookies go to the jar, then the body is
\* streamed unless the status is 204 or 304
onData(l, r) ==
    LET committed == [l EXCEPT !.setCookieCalls =
                         IF l.options.jar THEN l.gatheredCookies ELSE 0]
    IN  IF r.statusCode # 204 /\ r.statusCode # 304
        THEN [committed EXCEPT !.pc = "streaming"]
        ELSE [committed EXCEPT !.pc = "done", !.events = Append(committed.events, "end")]

\* onResponse(response)
onResponse(l, r) ==
    IF l.aborted
    THEN [l EXCEPT !.pc = "done", !.events = Append(l.events, "abort")]
    ELSE LET seen == [l EXCEPT !.statusCode = r.statusCode,
                               !.gatheredCookies =
                                   IF l.options.jar /\ r.setCookie
                                   THEN l.gatheredCookies + 1 ELSE l.gatheredCookies]
         IN  IF seen.options.auth /\ r.statusCode = 401 /\ r.challenge
             THEN \* onAuth calls getAuthString, which is not defined
                  [seen EXCEPT !.pc = "done", !.thrown = "ReferenceError"]
             ELSE IF /\ seen.options.followRedirect # << "false" >>
                     /\ r.statusCode >= 300 /\ r.statusCode < 400 /\ r.statusCode # 304
             THEN onRedirect(seen, r)
             ELSE onData([seen EXCEPT !.events = Append(seen.events, "response")], r)

\* the transport delivers the response of the request in flight
legacy_onResponse(r) ==
    /\ legacy.pc = "requesting"
    /\ legacy' = onResponse(legacy, r)
    /\ UNCHANGED << pc, flag, xhr, xhrEvents, requestHeaders, options, response, aborted,
                    gatheredCookies, requestsDone, uri, resp, err, buffer, events,
                    setCookieCalls, preflightCalls, realRequests, lastRequest,
                    authRetries, abortAt, fetchCalls, stream, loader, clients, observed,
                    requestManager >>

\* request.on("error", errorHandler): the request in flight fails
legacy_requestError ==
    /\ legacy.pc = "requesting"
    /\ legacy' = errorHandler(legacy)
    /\ UNCHANGED << pc, flag, xhr, xhrEvents, requestHeaders, options, response, aborted,
                    gatheredCookies, requestsDone, uri, resp, err, buffer, events,
                    setCookieCalls, preflightCalls, realRequests, lastRequest,
                    authRetries, abortAt, fetchCalls, stream, loader, clients, observed,
                    requestManager >>

\* the response stream delivers the body and ends
legacy_responseStream ==
    /\ legacy.pc = "streaming"
    /\ legacy' = [legacy EXCEPT !.pc = "done", !.events = legacy.events \o << "data", "end" >>]
    /\ UNCHANGED << pc, flag, xhr, xhrEvents, requestHeaders, options, response, aborted,
                    gatheredCookies, requestsDone, uri, resp, err, buffer, events,
                    setCookieCalls, preflightCalls, realRequests, lastRequest,
                    authRetries, abortAt, fetchCalls, stream, loader, clients, observed,
                    requestManager >>

NextLegacy ==
    \/ \E o \in LegacyOptions : legacy_request(o)
    \/ legacy_abort
    \/ \E r \in LegacyResponses : legacy_onResponse(r)
    \/ legacy_requestError
    \/ legacy_responseStream

SpecLegacy == Init /\ [][NextLegacy]_vars

\* the states an xhr can be in when an error, abort or timeout ends its request
XhrStates ==
    { [readyState |-> rs, status |-> st[1], statusText |-> st[2], ownerDocument |-> TRUE,
       properties |-> [uploadListener |-> ul, uploadComplete |-> uc, send |-> sd,
                       error |-> << >>, origin |-> Origins.A,
                       responseCache |-> c, responseTextCache |-> c,
                       responseXMLCache |-> NULL, responseHeaders |-> h]] :
        rs \in {READY_STATES.OPENED, READY_STATES.HEADERS_RECEIVED,
                READY_STATES.LOADING, READY_STATES.DONE},
        st \in { << 0, << >> >>, << 200, << "OK" >> >>, << 404, << "Not Found" >> >> },
        ul \in BOOLEAN, uc \in BOOLEAN, sd \in BOOLEAN,
        c \in {NULL, << "body" >>},
        h \in {EmptyObject, Put(EmptyObject, << "content-type" >>, << "text/html" >>)} }

InitErrorSteps ==
    /\ pc = "idle"
    /\ \E s \in BOOLEAN :
          flag = FlagOf(Uri.A, Method.GET, EmptyObject, Origins.A, FALSE, NoAuth, NoJar, UNDEFINED, s)
    /\ xhr \in XhrStates
    /\ xhrEvents = << >>
    /\ requestHeaders = EmptyObject
    /\ options = optionsOf(flag)
    /\ response = [statusCode |-> 200, headers |-> EmptyObject]
    /\ aborted = FALSE
    /\ gatheredCookies = << >>
    /\ requestsDone = 0
    /\ uri = NULL
    /\ resp = NoResponse
    /\ err = "none"
    /\ buffer = UNDEFINED
    /\ events = << >>
    /\ setCookieCalls = << >>
    /\ preflightCalls = 0
    /\ realRequests = 0
    /\ lastRequest = NoRequest
    /\ authRetries = 0
    /\ abortAt = "never"
    /\ fetchCalls = 0
    /\ stream = NoStream
    /\ InitOthers

\* a call of requestErrorSteps(xhr, event, exception)
requestErrorStepsCall(event) ==
    /\ observed = << >>
    /\ xhr' = requestErrorSteps(xhr, flag)
    /\ xhrEvents' = requestErrorStepsEvents(xhr, flag, event)
    /\ observed' = requestErrorStepsObserved(xhr, flag, event)
    /\ UNCHANGED << requestManager, legacy >>
    /\ UNCHANGED << pc, flag, requestHeaders, options, response, aborted, gatheredCookies,
                    requestsDone, uri, resp, err, buffer, events, setCookieCalls,
                    preflightCalls, realRequests, lastRequest, authRetries, abortAt,
                    fetchCalls, stream, loader, clients >>

NextErrorSteps == \E event \in {"error", "abort", "timeout"} : requestErrorStepsCall(event)

SpecErrorSteps == InitErrorSteps /\ [][NextErrorSteps]_vars

Next ==
    \/ \E f \in Flags, uploadListener \in BOOLEAN : createClient(f, uploadListener)
    \/ file_response_tick
    \/ \E n \in 1..HighWaterMark : stream_data(n)
    \/ stream_end
    \/ stream_error
    \/ abort
    \/ \E r \in Responses : fetchResolves(r)
    \/ fetchRejects
    \/ doRequestTo_then
    \/ \E b \in ResponseBodies : bufferResolves(b)
    \/ bufferRejects
    \/ doRequestTo_buffer
    \/ doRequestTo_catch
    \/ \E r \in PreflightResponses : preflightResolves(r)
    \/ preflightRejects
    \/ preflight_then
    \/ preflight_catch
    \/ data_error_tick
    \/ data_response_tick
    \/ data_body_tick

Spec == Init /\ [][Next]_vars

\* every step but the caller's: the transport settles each call, the stream
\* delivers, ends or fails, and the event loop runs each queued tick and
\* promise handler
Progress ==
    \/ file_response_tick
    \/ \E n \in 1..HighWaterMark : stream_data(n)
    \/ stream_end
    \/ stream_error
    \/ \E r \in Responses : fetchResolves(r)
    \/ fetchRejects
    \/ doRequestTo_then
    \/ \E b \in ResponseBodies : bufferResolves(b)
    \/ bufferRejects
    \/ doRequestTo_buffer
    \/ doRequestTo_catch
    \/ \E r \in PreflightResponses : preflightResolves(r)
    \/ preflightRejects
    \/ preflight_then
    \/ preflight_catch
    \/ data_error_tick
    \/ data_response_tick
    \/ data_body_tick

\* createClient with an event loop that never leaves a settled promise, a
\* queued tick or a readable stream unserved
SpecLive == Init /\ [][Next]_vars /\ WF_vars(Progress)

\* the synchronous part of createClient alone, over every combination of inputs
NextClassify ==
    \E f \in AllFlags, uploadListener \in BOOLEAN : createClient(f, uploadListener)

SpecClassify == Init /\ [][NextClassify]_vars

----------------------------------------------------------------------------
(* Properties *)

\* the number of times event e was emitted on the client
Count(e) == Cardinality({ i \in DOMAIN events : events[i] = e })

\* C1: when client.abort() is called while a real-request fetch is outstanding
\* (first hop, redirect hop or 401 retry) or while the final body is read, the
\* client emits no error, no data and no end; the catch handler is queued and,
\* once it has run, exactly one abort has been emitted.
C1_AbortWhileRequesting ==
    abortAt \in {"fetching", "reading"} =>
        /\ Count("error") = 0
        /\ Count("data") = 0
        /\ Count("end") = 0
        /\ pc \in {"failed", "done"}
        /\ pc = "failed" => Count("abort") = 0
        /\ pc = "done" => Count("abort") = 1 /\ events[Len(events)] = "abort"

\* abort() called while the retry after a 401, two redirects in, was outstanding
C1_Witness ==
    /\ abortAt = "fetching"
    /\ requestsDone = 2
    /\ authRetries = 1
    /\ realRequests = 4
    /\ pc = "done"
    /\ events = << "redirect", "redirect", "abort" >>

\* C2: when client.abort() is called while the preflight fetch is outstanding,
\* the client emits exactly one abort and no error, and the real request is
\* never sent.
C2_AbortDuringPreflight ==
    abortAt = "pf_fetching" =>
        /\ Count("error") = 0
        /\ realRequests = 0
        /\ pc = "done" => Count("abort") = 1

\* the request needs a preflight, in the words of the classification
RequiresPreflight ==
    /\ IsHttp
    /\ flag.origin # URL(flag.uri).origin
    /\ \/ toUpperCase(flag.method) \notin { Method.GET, Method.HEAD, Method.POST }
       \/ \E i \in DOMAIN flag.requestHeaders :
              toLowerCase(flag.requestHeaders[i].k) \notin
                  { lcName.accept, lcName.accept_language, lcName.content_language, lcName.content_type }
       \/ xhr.properties.uploadListener

\* C3: a cross-origin request that needs a preflight issues exactly one
\* preflight call; no real request is on the wire before the preflight response
\* was handled; no second preflight follows; and a preflight status outside
\* [200,299] ends the operation in error, reported as the invalid status,
\* with no real request sent.
C3_OnePreflightFirst ==
    RequiresPreflight =>
        /\ preflightCalls = 1
        /\ pc \in {"pf_fetching", "pf_fetched"} => realRequests = 0
        /\ (/\ pc \in {"pf_failed", "done"}
            /\ resp # NoResponse
            /\ (resp.status < 200 \/ resp.status > 299)
            /\ abortAt # "pf_fetching")
           => /\ realRequests = 0
              /\ abortAt = "never" => err = "Response for preflight has invalid HTTP status code"
              /\ pc = "done" => events = << "error" >>

\* a preflight answered 404: one OPTIONS call, an error, nothing else sent
C3_Witness ==
    /\ RequiresPreflight
    /\ lastRequest.kind = "preflight"
    /\ lastRequest.method = Method.OPTIONS
    /\ preflightCalls = 1
    /\ resp.status = 404
    /\ pc = "done"
    /\ events = << "error" >>
    /\ realRequests = 0

\* C4: a preflight is issued if and only if the request is cross-origin and the
\* upper-cased method is not GET, HEAD or POST, or a caller-supplied header
\* name is, case-insensitively, outside accept, accept-language,
\* content-language, content-type, or an upload listener is attached; without
\* a preflight the real request is the first call.
C4_PreflightIff ==
    IsHttp =>
        /\ (preflightCalls = 1 /\ lastRequest.kind = "preflight" /\ realRequests = 0)
           <=> RequiresPreflight
        /\ (preflightCalls = 0 /\ lastRequest.kind = "real" /\ realRequests = 1)
           <=> ~RequiresPreflight

\* cross-origin, method "Post", only the header CONTENT-LANGUAGE, no upload
\* listener: the real request goes out with no preflight
C4_Witness ==
    /\ IsHttp
    /\ flag.origin # URL(flag.uri).origin
    /\ flag.method = << "P","o","s","t" >>
    /\ ObjectKeys(flag.requestHeaders) = << HeaderName.CONTENT_LANGUAGE >>
    /\ ~xhr.properties.uploadListener
    /\ preflightCalls = 0
    /\ lastRequest.kind = "real"

\* C5: a same-origin request carries no Origin header and issues no preflight,
\* whatever its method, headers and upload listener; a cross-origin request
\* carries Origin: flag.origin, in the preflight call as in the real one.
C5_OriginHeader ==
    IsHttp =>
        IF flag.origin = URL(flag.uri).origin
        THEN /\ \A i \in DOMAIN requestHeaders :
                    toLowerCase(requestHeaders[i].k) # lcName.origin
             /\ \A i \in DOMAIN lastRequest.headers :
                    toLowerCase(lastRequest.headers[i].k) # lcName.origin
             /\ preflightCalls = 0
             /\ lastRequest.kind = "real"
        ELSE /\ Get(requestHeaders, HeaderName.Origin) = flag.origin
             /\ Get(lastRequest.headers, HeaderName.Origin) = flag.origin

\* same-origin DELETE with a custom header and an upload listener: sent at
\* once, without Origin
C5_Witness ==
    /\ IsHttp
    /\ flag.origin = URL(flag.uri).origin
    /\ flag.method = << "d","e","l","e","t","e" >>
    /\ HasOwn(flag.requestHeaders, HeaderName.X_Custom)
    /\ xhr.properties.uploadListener
    /\ pc = "fetching"
    /\ ~HasOwn(lastRequest.headers, HeaderName.Origin)

\* the positions of events e1 all precede the positions of events e2
AllBefore(e1, e2) ==
    \A i, j \in DOMAIN events : events[i] = e1 /\ events[j] = e2 => i < j

C7_CookieCommit ==
    IsHttp =>
        /\ Count("response") = 0 => setCookieCalls = << >>
        /\ Count("response") > 0 =>
              /\ Len(setCookieCalls) = Len(Flatten(gatheredCookies))
              /\ \A i \in DOMAIN setCookieCalls :
                    setCookieCalls[i][1] = Flatten(gatheredCookies)[i]

\* cookies from two hops, three values in all, committed at the final response
C7_Witness ==
    /\ IsHttp
    /\ requestsDone >= 2
    /\ gatheredCookies = << << << "a=1" >> >>, << << "b=2" >>, << "c=3" >> >> >>
    /\ Count("response") = 1
    /\ Len(setCookieCalls) = 3
    /\ setCookieCalls[3][1] = << "c=3" >>

\* "Basic " followed by the base64 text of user:pass, for the credentials used
ExpectedAuthorization ==
    IF flag.auth.user = << "u" >> /\ flag.auth.pass = << "p" >>
    THEN << "B","a","s","i","c"," ","d","T","p","w" >>
    ELSE IF flag.auth.user = << "j","o","e" >> /\ flag.auth.pass = << "p","w","1","2" >>
    THEN << "B","a","s","i","c"," ","a","m","9","l","O","n","B","3","M","T","I","=" >>
    ELSE NULL

\* a 401 with WWW-Authenticate, credentials configured and no Authorization
\* header yet, is answered by one more request to the same URL that carries
\* Authorization: Basic base64(user:pass), and by no event
C8_Retry ==
    (/\ doRequestTo_then
     /\ ~aborted
     /\ resp.status = 401
     /\ has(resp.headers, << "www-authenticate" >>)
     /\ flag.auth.present
     /\ getRequestHeader(requestHeaders, HeaderName.Authorization) = NULL)
    => /\ authRetries = 0
       /\ authRetries' = 1
       /\ realRequests' = realRequests + 1
       /\ pc' = "fetching"
       /\ uri' = uri
       /\ lastRequest'.uri = lastRequest.uri
       /\ Get(lastRequest'.headers, HeaderName.Authorization) = ExpectedAuthorization
       /\ events' = events

\* a 401 that follows the retry is delivered through response, with no request
C8_SecondUnauthorized ==
    (doRequestTo_then /\ ~aborted /\ resp.status = 401 /\ authRetries = 1)
    => /\ authRetries' = 1
       /\ realRequests' = realRequests
       /\ response'.statusCode = 401
       /\ events' = Append(events, "response")

\* C8: given credentials, no Authorization header yet and a 401 response with
\* WWW-Authenticate, exactly one retry goes to the same URL with
\* Authorization: Basic base64(user:pass); a 401 on the retry is delivered
\* through response; there is at most one retry per operation.
C8_AuthRetry ==
    /\ [](authRetries <= 1)
    /\ [][C8_Retry]_vars
    /\ [][C8_SecondUnauthorized]_vars

\* the retry was answered 401 again and that response was delivered
C8_Witness ==
    /\ authRetries = 1
    /\ realRequests = 2
    /\ Get(lastRequest.headers, HeaderName.Authorization) = << "B","a","s","i","c"," ","d","T","p","w" >>
    /\ response.statusCode = 401
    /\ pc = "done"
    /\ events = << "response", "data", "end" >>

\* what may follow the redirect events
EventTails ==
    { << >>, << "response" >>, << "response", "data", "end" >>,
      << "abort" >>, << "error" >>,
      << "response", "abort" >>, << "response", "error" >> }

\* C9 as stated: the events are request, redirect*, response, data, end, or a
\* prefix of that cut short by one abort or one error.
C9_RequestFirst ==
    IsHttp =>
        \/ events \in { << >>, << "abort" >>, << "error" >> }
        \/ /\ events[1] = "request"
           /\ \E k \in 1..Len(events) :
                 /\ \A i \in 2..k : events[i] = "redirect"
                 /\ SubSeq(events, k + 1, Len(events)) \in EventTails

\* apart from the request event, which createClient never emits, the order
\* holds: zero or more redirect, then response, then data, then end, or a
\* prefix of that cut short by exactly one abort or exactly one error.
C9_EventOrder ==
    IsHttp =>
        /\ \E k \in 0..Len(events) :
              /\ \A i \in 1..k : events[i] = "redirect"
              /\ SubSeq(events, k + 1, Len(events)) \in EventTails
        /\ Count("request") = 0
        /\ Count("abort") + Count("error") <= 1
        /\ Count("end") + Count("abort") + Count("error") > 0 => pc = "done"

\* two redirects, then the response and its body
C9_Witness ==
    /\ IsHttp
    /\ pc = "done"
    /\ events = << "redirect", "redirect", "response", "data", "end" >>

\* C10: for a data: URL nothing is emitted inside the createClient call; a URL
\* that does not decode yields error and never response; one that decodes
\* yields response, with content-type the decoded media type, then data with
\* the decoded bytes, then end.
C10_DataURL ==
    IsData =>
        /\ pc \in {"data_tick1", "data_error_tick"} => events = << >>
        /\ IF parseDataURL(flag.uri).ok
           THEN /\ events \in { << >>, << "response" >>, << "response", "data", "end" >> }
                /\ Get(response.headers, << "content-type" >>) = parseDataURL(flag.uri).mimeType
                /\ Count("data") > 0 => buffer = parseDataURL(flag.uri).body
                /\ pc = "done" => events = << "response", "data", "end" >>
           ELSE /\ events \in { << >>, << "error" >> }
                /\ pc = "done" => events = << "error" >>

\* data:text/plain,hello delivered: text/plain, then the bytes of hello
C10_Witness ==
    /\ flag.uri = Uri.DataHello
    /\ pc = "done"
    /\ Get(response.headers, << "content-type" >>) = << "text/plain" >>
    /\ buffer = << "h","e","l","l","o" >>
    /\ events = << "response", "data", "end" >>

\* some abort was emitted before position j of the events
AbortBefore(j) == \E i \in 1..(j - 1) : events[i] = "abort"

\* C11: a file: client emits response, then the file's bytes as a single data
\* event, then a single end, or error on an open or read failure; once abort()
\* has been called no response, data or end is emitted.
C11_FileEvents ==
    IsFile =>
        /\ Count("response") <= 1 /\ Count("data") <= 1 /\ Count("end") <= 1
        /\ Count("data") + Count("end") > 0 => Count("response") = 1
        /\ AllBefore("response", "data") /\ AllBefore("data", "end")
        /\ Count("end") = 1 /\ Len(stream.file) > 0 => Count("data") = 1 /\ buffer = stream.file
        /\ Count("error") > 0 => Count("end") = 0
        /\ \A j \in DOMAIN events :
              AbortBefore(j) => events[j] \notin {"response", "data", "end"}

\* the client has emitted end, error or abort
TerminalEmitted == Count("end") + Count("error") + Count("abort") > 0

\* C12: an abort() call that follows an earlier abort() call, or that is made
\* after end, error or abort was emitted, emits no event and changes nothing
\* of the outcome.
C12_AbortIdempotent ==
    [][(abort /\ (abortAt # "never" \/ TerminalEmitted))
          => (events' = events /\ pc' = pc /\ stream' = stream)]_vars

UnsupportedScheme ==
    pc # "idle" /\ URL(flag.uri).protocol \notin {"file:", "data:", "http:", "https:"}

\* C13: for a URL whose scheme is none of file:, data:, http:, https: the
\* operation fails with an error and makes no fetch call and no preflight
\* call.
C13_UnsupportedScheme ==
    UnsupportedScheme =>
        /\ fetchCalls = 0
        /\ preflightCalls = 0
        /\ realRequests = 0
        /\ events \in { << >>, << "error" >> }

\* the response state of a network error
IsNetworkErrorState(x) ==
    /\ x.status = 0
    /\ x.statusText = << >>
    /\ x.properties.responseHeaders = EmptyObject
    /\ x.properties.responseCache = NULL
    /\ x.properties.responseTextCache = NULL
    /\ x.properties.responseXMLCache = NULL
    /\ x.readyState = READY_STATES.DONE
    /\ x.properties.send = FALSE

\* C14: whatever the xhr's state when requestErrorSteps is called, every event
\* it fires (readystatechange, the upload events, the error/abort event,
\* loadend) and the exception it throws in synchronous mode find the response
\* state already reset: status 0, empty statusText and headers, null caches,
\* readyState DONE, send flag false.
C14_ResetBeforeEvents ==
    /\ \A i \in DOMAIN observed : IsNetworkErrorState(observed[i].seen)
    /\ observed # << >> => IsNetworkErrorState(xhr)

\* an xhr with a populated response, an upload listener and the upload not
\* complete went through requestErrorSteps and fired all five events
C14_Witness ==
    /\ Len(observed) = 5
    /\ observed[1].type = "readystatechange"
    /\ observed[2].target = "upload"
    /\ observed[1].prior.status = 200
    /\ observed[1].prior.properties.responseCache = << "body" >>
    /\ observed[1].prior.properties.responseHeaders # EmptyObject
    /\ observed[1].prior.readyState = READY_STATES.LOADING

\* the number of times operation i emitted event e
PairCount(i, e) ==
    Cardinality({ k \in DOMAIN clients.ops[i].events : clients.ops[i].events[k] = e })

\* operation i emits abort only after its own abort() call, counts only the
\* redirects it followed itself, and has committed only cookies it gathered
PairOwnState(i) ==
    LET c == clients.ops[i]
    IN  /\ PairCount(i, "abort") > 0 => c.abortCalled
        /\ c.aborted => c.abortCalled
        /\ c.requestsDone =
              PairCount(i, "redirect") + (IF c.err = "Exceeded maxRedirects" THEN 1 ELSE 0)
        /\ c.err = "Exceeded maxRedirects" => PairCount(i, "redirect") = 20
        /\ \A k \in DOMAIN clients.jar :
              clients.jar[k].by = i =>
                  /\ clients.jar[k].value = PairCookie(i)
                  /\ \E g \in DOMAIN c.gatheredCookies :
                        \E v \in DOMAIN c.gatheredCookies[g] :
                            c.gatheredCookies[g][v] = clients.jar[k].value

\* C15: two concurrent createClient operations are independent: abort() on one
\* leaves the other's state as it is, an operation emits abort only after its
\* own abort() call, its 21-hop limit counts only its own redirects, and the
\* cookies it commits are the ones it gathered itself.
C15_Independent ==
    /\ [](\A i \in 1..2 : PairOwnState(i))
    /\ [][\A i \in 1..2 : pair_abort(i) => clients'.ops[Other(i)] = clients.ops[Other(i)]]_vars

\* operation 1 was aborted after three redirects while operation 2 went on,
\* followed a redirect of its own and delivered its response and body
C15_Witness ==
    /\ clients.ops[1].events = << "redirect", "redirect", "redirect", "abort" >>
    /\ clients.ops[2].events = << "redirect", "response", "data", "end" >>
    /\ ~clients.ops[2].aborted
    /\ Len(clients.jar) = 1
    /\ clients.jar[1].by = 2

\* something that can still settle the promise is outstanding
LoaderOutstanding ==
    \/ loader.timer
    \/ loader.stream \in {"opening", "flowing"}
    \/ loader.pc \in {"fetching", "fetched", "reading", "read", "failed", "body"}

\* C16: when abort() is called on a pending promise of ResourceLoader.fetch,
\* the promise is not rejected, a settled promise has the value null, and a
\* promise still pending has something outstanding that will settle it.
C16_AbortResolvesNull ==
    loader.abortedWhilePending =>
        /\ loader.state # "rejected"
        /\ loader.state = "resolved" => loader.value = NULL
        /\ loader.state = "pending" => LoaderOutstanding

\* C19: every cookieJar.setCookie call made at completion names the URL of
\* the final hop, the one whose response was not a redirect.
C19_CommitAgainstFinalUrl ==
    /\ \A k \in DOMAIN loader.setCookieCalls : loader.setCookieCalls[k][2] = loader.uri
    /\ \A k \in DOMAIN setCookieCalls : setCookieCalls[k][2] = uri

\* the preflight response r allows the real request of flag f from origin
PreflightAllows(r, f, origin) ==
    LET acah == IF has(r.headers, << "access-control-allow-headers" >>)
                THEN Elems(headerListSeparatorSplit(toLowerCase(trim(
                         get(r.headers, << "access-control-allow-headers" >>)))))
                ELSE {}
    IN  /\ r.status >= 200 /\ r.status <= 299
        /\ get(r.headers, << "access-control-allow-origin" >>) \in {HeaderValue.Star, origin}
        /\ f.withCredentials =>
               get(r.headers, << "access-control-allow-credentials" >>) = HeaderValue.True
        /\ \A k \in DOMAIN f.requestHeaders :
               \/ toLowerCase(f.requestHeaders[k].k) \in simpleHeaders
               \/ toLowerCase(f.requestHeaders[k].k) \in acah

\* C17: after a preflight the real request is sent only if the preflight
\* response has a status in [200,299], an Access-Control-Allow-Origin of '*'
\* or the requesting origin, Access-Control-Allow-Credentials 'true' when
\* withCredentials is set, and every caller header simple or listed in
\* Access-Control-Allow-Headers; any other preflight response ends the
\* operation in error with no real request sent.
C17_PreflightGate ==
    /\ [][preflight_then /\ ~PreflightAllows(resp, flag, xhr.properties.origin)
             => /\ pc' = "pf_failed"
                /\ realRequests' = realRequests
                /\ fetchCalls' = fetchCalls]_vars
    /\ [](pc \in {"pf_fetching", "pf_fetched", "pf_failed"} => realRequests = 0)
    /\ []((pc = "done" /\ preflightCalls = 1 /\ realRequests = 0 /\ resp.status # 0)
             => events = << "error" >>)

\* a 200 preflight response without Access-Control-Allow-Origin ended the
\* operation in error, no real request sent
C17_Witness ==
    /\ pc = "done"
    /\ preflightCalls = 1
    /\ resp.status = 200
    /\ ~has(resp.headers, << "access-control-allow-origin" >>)
    /\ ~aborted
    /\ realRequests = 0
    /\ events = << "error" >>

\* the header names the preflight request may carry
PreflightHeaderNames ==
    { lcName.origin, lcName.referer, toLowerCase(HeaderName.Access_Control_Request_Method),
      toLowerCase(HeaderName.Access_Control_Request_Headers) }

\* C18: the preflight request is an OPTIONS request to the same URL whose
\* headers are Origin and Referer as the real request has them,
\* Access-Control-Request-Method with the real method, and, only when the
\* caller set non-simple headers, Access-Control-Request-Headers with their
\* lower-cased names joined by commas; it carries no other header.
C18_PreflightRequest ==
    lastRequest.kind = "preflight" =>
        LET pre == lastRequest.headers
            names == [k \in DOMAIN nonSimpleHeaders(flag) |-> toLowerCase(nonSimpleHeaders(flag)[k])]
        IN  /\ lastRequest.method = Method.OPTIONS
            /\ lastRequest.uri = URL(flag.uri).href
            /\ \A k \in DOMAIN pre : toLowerCase(pre[k].k) \in PreflightHeaderNames
            /\ getRequestHeader(pre, lcName.origin) = getRequestHeader(requestHeaders, lcName.origin)
            /\ getRequestHeader(pre, lcName.referer) = getRequestHeader(requestHeaders, lcName.referer)
            /\ Get(pre, HeaderName.Access_Control_Request_Method) = flag.method
            /\ IF Len(names) > 0
               THEN Get(pre, HeaderName.Access_Control_Request_Headers)
                        \in {join(names, << "," >>), join(names, << ",", " " >>)}
               ELSE ~HasOwn(pre, HeaderName.Access_Control_Request_Headers)

\* C20: the Set-Cookie values of every response the request loop receives
\* are appended to gatheredCookies, also those of a 401 challenge that is
\* answered by the retry with credentials.
C20_EveryResponseGathered ==
    [][(doRequestTo_then /\ ~aborted /\ has(resp.headers, << "set-cookie" >>))
          => gatheredCookies' = Append(gatheredCookies, raw(resp.headers, << "set-cookie" >>))]_vars

----------------------------------------------------------------------------
\* the request headers a hop may change
HopHeaders == { lcName.referer, << "c","o","o","k","i","e" >>,
                << "a","u","t","h","o","r","i","z","a","t","i","o","n" >> }

\* the headers of two requests agree outside HopHeaders
SameFixedHeaders(h1, h2) ==
    \A k \in Elems(ObjectKeys(h1)) \cup Elems(ObjectKeys(h2)) :
        toLowerCase(k) \notin HopHeaders => Get(h1, k) = Get(h2, k)

\* C21: every real request after the first (a redirect hop or the 401 retry)
\* carries the method and the body of the request before it, whatever 3xx
\* status led to it; its headers differ from the earlier request's at most in
\* Referer, Cookie and Authorization; the options object is left as it was.
C21_HopsPreserveRequest ==
    [][(lastRequest.kind = "real" /\ realRequests' = realRequests + 1)
          => /\ lastRequest'.method = lastRequest.method
             /\ lastRequest'.body = lastRequest.body
             /\ SameFixedHeaders(lastRequest.headers, lastRequest'.headers)
             /\ options' = options
             /\ lastRequest'.method = flag.method
             /\ lastRequest'.body = options.body]_vars

\* C21 witness: a PUT with a body was challenged, retried and redirected twice,
\* the last time by a 303 to another origin
C21_Witness ==
    /\ pc = "fetching"
    /\ authRetries = 1
    /\ requestsDone = 2
    /\ resp.status = 303
    /\ lastRequest.uri = Uri.B
    /\ lastRequest.method = << "P","U","T" >>
    /\ lastRequest.body = << "payload" >>

\* C26: once the 401 retry has set Authorization, every later request of the
\* operation carries that value, also a redirect hop to another origin, and
\* the header is not removed or given another value while the operation runs.
C26_AuthorizationKept ==
    /\ [][(authRetries >= 1 /\ realRequests' = realRequests + 1)
             => /\ Get(lastRequest'.headers, HeaderName.Authorization) = ExpectedAuthorization
                /\ Get(lastRequest'.headers, HeaderName.Authorization)
                       = Get(lastRequest.headers, HeaderName.Authorization)]_vars
    /\ [][authRetries >= 1
             => Get(requestHeaders', HeaderName.Authorization)
                   = Get(requestHeaders, HeaderName.Authorization)]_vars
    /\ [](authRetries >= 1
             => Get(requestHeaders, HeaderName.Authorization) = ExpectedAuthorization)

\* C26 witness: the retry was redirected from http://a.test to https://b.test
\* and the request to b.test carries the header made for a.test
C26_Witness ==
    /\ authRetries = 1
    /\ pc = "fetching"
    /\ URL(flag.uri).origin = Origins.A
    /\ lastRequest.uri = Uri.B
    /\ Get(lastRequest.headers, HeaderName.Authorization)
          = << "B","a","s","i","c"," ","a","m","9","l","O","n","B","3","M","T","I","=" >>

\* C24: when the last event of an http(s) operation is abort or error, no
\* cookie the operation gathered has been handed to the cookie jar.
C24_NoCommitOnFailure ==
    (IsHttp /\ pc = "done" /\ events # << >>
        /\ events[Len(events)] \in {"abort", "error"})
    => setCookieCalls = << >>

\* C23: a preflight response with a status in [200,299], an
\* Access-Control-Allow-Origin of '*' or the requesting origin,
\* Access-Control-Allow-Credentials 'true' when credentials are requested and
\* an Access-Control-Allow-Headers list covering every non-simple caller
\* header, with no abort requested, is followed by the real request, sent
\* once, and by no error event on account of the preflight.
C23_PreflightPasses ==
    /\ [][(preflight_then /\ ~aborted /\ PreflightAllows(resp, flag, xhr.properties.origin))
             => /\ realRequests' = realRequests + 1
                /\ pc' = "fetching"
                /\ xhrEvents' = xhrEvents]_vars
    /\ [](realRequests > 0 /\ preflightCalls > 0 => fetchCalls = 2)

\* the most real requests one operation can make: the first, 20 redirect
\* hops and one retry with credentials
MaxRealRequests == MaxRequestsDone + 1

\* C25: when every transport call settles and every file stream ends or
\* fails, every operation comes to emit end, error or abort, whatever the
\* server answers; an operation makes at most 22 real requests.  (An
\* operation that has started never counts as not started again, so that it
\* is again and again not started or finished says that it finishes.)
C25_Terminates ==
    /\ []<>(pc = "idle" \/ (pc = "done" /\ TerminalEmitted))
    /\ [][pc # "idle" => pc' # "idle"]_vars
    /\ [](realRequests <= MaxRealRequests)
    /\ [](requestsDone <= MaxRequestsDone /\ authRetries <= 1)

\* C25 witness: the longest operation: a challenge, the retry, twenty
\* redirects and the final response, 22 real requests in all
C25_Witness ==
    /\ pc = "done"
    /\ realRequests = 22
    /\ authRetries = 1
    /\ Count("redirect") = 20
    /\ events[Len(events)] = "end"

\* the number of entries of the operation the manager holds
ManagerEntries == Len(SelectSeq(requestManager, LAMBDA e : e = "req"))

\* C27: with a request manager, a file: or http(s): operation adds one entry
\* when it starts; the entry is there until the client emits abort, error or
\* end, and is gone in every state after that.
C27_ManagerEntry ==
    /\ [](((IsFile \/ IsHttp) /\ flag.requestManager)
            => ManagerEntries = (IF TerminalEmitted THEN 0 ELSE 1))
    /\ [][(\E f \in Flags, u \in BOOLEAN : createClient(f, u))
            => ManagerEntries' = (IF flag'.requestManager /\ ~IsData' THEN 1 ELSE 0)]_vars
    /\ [][ManagerEntries' < ManagerEntries
            => (~TerminalEmitted /\ TerminalEmitted')]_vars

\* C27 witness: a file: operation was aborted before its response tick ran;
\* the entry went with the abort event and the tick is still to come
C27_Witness ==
    /\ IsFile
    /\ flag.requestManager
    /\ events = << "abort" >>
    /\ stream.tick
    /\ requestManager = << >>

\* the redirects the options of the request() call allow
MaxRedirectsGiven ==
    IF legacy.options.maxRedirects.given THEN legacy.options.maxRedirects.value ELSE 5

\* the redirects the request() call has followed
LegacyRedirects == Len(SelectSeq(legacy.events, LAMBDA e : e = "redirect"))

\* C22: with followRedirect not false, request() follows at most maxRedirects
\* redirects, 5 when the option is not given and the given number otherwise,
\* 0 included; the next 3xx response other than 304 ends in the error and
\* sends no request.
C22_MaxRedirects ==
    (legacy.pc # "idle" /\ legacy.options.followRedirect # << "false" >>)
    => /\ LegacyRedirects <= MaxRedirectsGiven
       /\ legacy.requests <= 1 + MaxRedirectsGiven

====
